---- MODULE Spec2Model ----
(***************************************************************************)
(* A model of dnstwist (src/dnstwist.py): the URL parser, the permutation  *)
(* generator with its dictionary and TLD expanders, and the worker pool    *)
(* that enriches the candidates.                                           *)
(*                                                                         *)
(* Strings are sequences of code points (ord values), so that character    *)
(* classes, case folding and bit flips are computed as the code computes   *)
(* them.  "ab.com" is <<97, 98, 46, 99, 111, 109>>.                        *)
(***************************************************************************)
EXTENDS Integers, Sequences, FiniteSets, TLC

(***************************************************************************)
(* Characters and string helpers (Python str methods used by the source).  *)
(***************************************************************************)

\* ord() of the punctuation the source names in literals.
Ch == [dot |-> 46, hyphen |-> 45, colon |-> 58, slash |-> 47, qmark |-> 63,
       hash |-> 35, space |-> 32, newline |-> 10, tab |-> 9]

IsLowerAlpha(c) == c \in 97..122
IsUpperAlpha(c) == c \in 65..90
IsAsciiAlpha(c) == IsLowerAlpha(c) \/ IsUpperAlpha(c)
IsDigit(c) == c \in 48..57
\* \s of the re module, restricted to ASCII: space, \t \n \v \f \r.
IsSpace(c) == c = 32 \/ c \in 9..13

\* str.lower() on one character of ASCII or of the Latin-1 capitals
\* U+00C0..U+00DE (U+00D7, the multiplication sign, has no lower case).
LowerChar(c) ==
    IF IsUpperAlpha(c) \/ (c \in 192..222 /\ c # 215) THEN c + 32 ELSE c
LowerStr(s) == [i \in 1..Len(s) |-> LowerChar(s[i])]

\* s[a:b] of Python with 0-based a, b already clipped to 0..len(s).
Slice(s, a, b) == IF b <= a THEN <<>> ELSE SubSeq(s, a + 1, b)

\* s.startswith(p, at) with 0-based at.
StartsWithAt(s, p, at) ==
    /\ at + Len(p) <= Len(s)
    /\ \A i \in 1..Len(p) : s[at + i] = p[i]

StartsWith(s, p) == StartsWithAt(s, p, 0)

\* "p in s" for strings.
Contains(s, p) == \E at \in 0..Len(s) : StartsWithAt(s, p, at)

\* c in s for one character.
HasChar(s, c) == \E i \in 1..Len(s) : s[i] = c

\* Length of the longest prefix of s (from 0-based position at) whose
\* characters all satisfy the class given as a set of excluded characters
\* and the no-whitespace rule: the classes [^...\s] of the URL regex.
RECURSIVE RunNotIn(_, _, _)
RunNotIn(s, at, excl) ==
    IF at >= Len(s) THEN 0
    ELSE IF s[at + 1] \in excl \/ IsSpace(s[at + 1]) THEN 0
    ELSE 1 + RunNotIn(s, at + 1, excl)

\* s.split(sep) for a one-character separator: always at least one part.
RECURSIVE SplitFrom(_, _, _, _)
SplitFrom(s, sep, at, start) ==
    IF at > Len(s) THEN << Slice(s, start, Len(s)) >>
    ELSE IF s[at] = sep
         THEN << Slice(s, start, at - 1) >> \o SplitFrom(s, sep, at + 1, at)
         ELSE SplitFrom(s, sep, at + 1, start)

Split(s, sep) == SplitFrom(s, sep, 1, 0)

\* sep.join(parts).
RECURSIVE Join(_, _)
Join(parts, sep) ==
    IF Len(parts) = 0 THEN <<>>
    ELSE IF Len(parts) = 1 THEN parts[1]
    ELSE parts[1] \o <<sep>> \o Join(Tail(parts), sep)

\* filter(None, parts): the non-empty parts, in order.
RECURSIVE NonEmpty(_)
NonEmpty(parts) ==
    IF Len(parts) = 0 THEN <<>>
    ELSE IF Len(parts[1]) = 0 THEN NonEmpty(Tail(parts))
    ELSE << parts[1] >> \o NonEmpty(Tail(parts))

\* All strings over alphabet A of length exactly n / at most n.
RECURSIVE StringsOfLen(_, _)
StringsOfLen(A, n) ==
    IF n = 0 THEN { <<>> }
    ELSE { <<c>> \o s : c \in A, s \in StringsOfLen(A, n - 1) }

StringsUpTo(A, n) == UNION { StringsOfLen(A, k) : k \in 0..n }

(***************************************************************************)
(* State.                                                                  *)
(*   URL parser:  u_input, u_pc, u_exc, url, full_uri                      *)
(***************************************************************************)
VARIABLES
    u_input,    \* the string handed to UrlParser(url)
    u_pc,       \* "new", "parsed" (constructor returned) or "raised"
    u_exc,      \* the exception type that left the constructor, "" if none
    url,        \* the UrlParser object: url, scheme, authority, domain, path, query
    full_uri    \* [called |-> BOOLEAN, value |-> what get_full_uri() returned]

urlVars == << u_input, u_pc, u_exc, url, full_uri >>

(***************************************************************************)
(*   Generator and main's candidate assembly:                              *)
(***************************************************************************)
VARIABLES
    g_input,    \* the domain handed to DomainFuzz(domain) (url.domain)
    g_pc,       \* the statement of generate() / main reached
    dfuzz,      \* the DomainFuzz object: subdomain, domain, tld
    domains,    \* self.domains, later main's domains: the list of records
    emitted,    \* history: self.domains as generate() built it, before the filter
    hashOrder,  \* the order in which this run's Python lists a set
    dictionary, \* ddict.dictionary and tlddict.dictionary as loaded
    jobs        \* the job queue: indices into domains, head first

genVars == << g_input, g_pc, dfuzz, domains, emitted, hashOrder, dictionary, jobs >>

(***************************************************************************)
(*   Worker pool and main's orchestration:                                 *)
(***************************************************************************)
VARIABLES
    conf,          \* the worker options main sets: option_extdns, option_mxcheck, ...
    nthreads,      \* args["--threads"] as main uses it
    net,           \* the environment: for each candidate, how each probe answers
    sigint,        \* "off" (no SIGINT in this run), "armed" or "raised"
    w_pc,          \* each worker's position in DomainThread.run
    kill_received, \* each worker's self.kill_received
    cur,           \* the index in domains of the record a worker holds, 0 for none
    lcl,           \* run()'s locals nxdomain, dns_ns, dns_a, dns_aaaa, dns_mx
    w_exc,         \* the exception that left a worker's run(), "" for none
    m_pc,          \* the main thread's position
    m_i,           \* main's loop index
    threads,       \* the global list threads
    qperc,         \* main's qperc, scaled by len(domains)
    h_pc,          \* the position of sigint_handler, "none" while it has not run
    h_k,           \* the handler's loop index
    exit_code,     \* the code of sys.exit, -1 while the process runs
    stdout,        \* what main's renderer wrote
    hits_total,    \* main's hits_total
    args,          \* args["--registered"] and args["--format"], drawn where main reads them
    takers,        \* history: for each record, the workers that dequeued it
    finalized,     \* history: the records for which task_done was called
    probed,        \* history: for each record, the probes run on it and by whom
    late           \* history: a dequeue happened after the handler had started

poolVars == << conf, nthreads, net, sigint, w_pc, kill_received, cur, lcl, w_exc,
               m_pc, m_i, threads, qperc, h_pc, h_k, exit_code, stdout, hits_total,
               args, takers, finalized, probed, late >>

vars == << urlVars, genVars, poolVars >>

\* The variables of the parts of the program a run does not exercise.
notUrl == << genVars, poolVars >>
notGen == << urlVars, poolVars >>
notPool == << urlVars, g_input, g_pc, dfuzz, emitted, hashOrder, dictionary >>

\* The two options of the rendering before main has read them.
NoArgs == [ registered |-> FALSE, format |-> "unread" ]

\* The pool before main reaches it.
PoolIdle ==
    /\ conf = [ extdns |-> FALSE, mxcheck |-> FALSE, whois |-> FALSE,
                geoip |-> FALSE, banners |-> FALSE, ssdeep |-> FALSE ]
    /\ nthreads = 1
    /\ net = <<>>
    /\ sigint = "off"
    /\ w_pc = <<>>
    /\ kill_received = <<>>
    /\ cur = <<>>
    /\ lcl = <<>>
    /\ w_exc = <<>>
    /\ m_pc = "idle"
    /\ m_i = 1
    /\ threads = <<>>
    /\ qperc = 0
    /\ h_pc = "none"
    /\ h_k = 1
    /\ exit_code = -1
    /\ stdout = [ renderer |-> "none", records |-> <<>> ]
    /\ hits_total = 0
    /\ args = NoArgs
    /\ takers = <<>>
    /\ finalized = {}
    /\ probed = <<>>
    /\ late = FALSE

(***************************************************************************)
(* UrlParser (src/dnstwist.py 213-269).                                    *)
(***************************************************************************)

S_http == << 104, 116, 116, 112 >>                      \* "http"
S_schemeSep == << 58, 47, 47 >>                         \* "://"
S_httpPrefix == << 104, 116, 116, 112, 58, 47, 47 >>    \* "http://"

\* re_rfc3986_enhanced.match(url): the groups of the match, or matched = FALSE.
\* A group that did not take part in the match is reported as has* = FALSE.
\* Every character class of the pattern excludes \s and the delimiter that
\* follows it, so the greedy match is the only candidate.  The pattern is
\* followed group by group, g holding the groups matched so far.

\* "(?:#(?P<fragment>[^\s]*))?$" from position p4; the final $ (with
\* re.MULTILINE) accepts the end of the string or a position before "\n".
MatchEnd(u, g, p4) ==
    LET hasFrag == p4 < Len(u) /\ u[p4 + 1] = Ch.hash
        p5 == IF hasFrag THEN p4 + 1 + RunNotIn(u, p4 + 1, {}) ELSE p4
    IN  [ g EXCEPT !.matched = (p5 = Len(u)) \/ (p5 < Len(u) /\ u[p5 + 1] = Ch.newline) ]

\* "(?:\?(?P<query>[^#\s]*))?" from position p3.
MatchQuery(u, g, p3) ==
    LET hasQuery == p3 < Len(u) /\ u[p3 + 1] = Ch.qmark
        nQuery == IF hasQuery THEN RunNotIn(u, p3 + 1, {Ch.hash}) ELSE 0
    IN  MatchEnd(u,
                 [ g EXCEPT !.hasQuery = hasQuery,
                            !.query = Slice(u, p3 + 1, p3 + 1 + nQuery) ],
                 IF hasQuery THEN p3 + 1 + nQuery ELSE p3)

\* "(?P<path>[^?#\s]*)" from position p2.
MatchPath(u, g, p2) ==
    LET nPath == RunNotIn(u, p2, {Ch.qmark, Ch.hash})
    IN  MatchQuery(u, [ g EXCEPT !.path = Slice(u, p2, p2 + nPath) ], p2 + nPath)

\* "(?://(?P<authority>[^/?#\s]*))?" from position p1.
MatchAuthority(u, g, p1) ==
    LET hasAuth == StartsWithAt(u, << Ch.slash, Ch.slash >>, p1)
        nAuth == IF hasAuth THEN RunNotIn(u, p1 + 2, {Ch.slash, Ch.qmark, Ch.hash}) ELSE 0
    IN  MatchPath(u,
                  [ g EXCEPT !.hasAuth = hasAuth,
                             !.authority = Slice(u, p1 + 2, p1 + 2 + nAuth) ],
                  IF hasAuth THEN p1 + 2 + nAuth ELSE p1)

\* "^(?:(?P<scheme>[^:/?#\s]+):)?" and the rest of the pattern.
MatchUri(u) ==
    LET nScheme == RunNotIn(u, 0, {Ch.colon, Ch.slash, Ch.qmark, Ch.hash})
        hasScheme == nScheme >= 1 /\ nScheme < Len(u) /\ u[nScheme + 1] = Ch.colon
    IN  MatchAuthority(u,
                       [ matched |-> FALSE,
                         hasScheme |-> hasScheme,
                         scheme |-> Slice(u, 0, nScheme),
                         hasAuth |-> FALSE,
                         authority |-> <<>>,
                         path |-> <<>>,
                         hasQuery |-> FALSE,
                         query |-> <<>> ],
                       IF hasScheme THEN nScheme + 1 ELSE 0)

\* One label of "[a-z0-9]+(-[a-z0-9]+)*" under re.IGNORECASE (ASCII input).
IsUrlLabel(l) ==
    /\ Len(l) >= 1
    /\ \A i \in 1..Len(l) : IsAsciiAlpha(l[i]) \/ IsDigit(l[i]) \/ l[i] = Ch.hyphen
    /\ l[1] # Ch.hyphen /\ l[Len(l)] # Ch.hyphen
    /\ \A i \in 1..(Len(l) - 1) : ~(l[i] = Ch.hyphen /\ l[i + 1] = Ch.hyphen)

\* "\A([a-z0-9]+(-[a-z0-9]+)*\.)+[a-z]{2,}\Z" under re.IGNORECASE.
UrlAllowedMatch(d) ==
    LET labels == Split(d, Ch.dot)
        n == Len(labels)
    IN  /\ n >= 2
        /\ \A i \in 1..(n - 1) : IsUrlLabel(labels[i])
        /\ Len(labels[n]) >= 2
        /\ \A i \in 1..Len(labels[n]) : IsAsciiAlpha(labels[n][i])

\* UrlParser.__validate_domain: "True", "False", or "IndexError" when
\* domain[-1] is evaluated on the empty string.
UrlValidateDomain(d) ==
    IF Len(d) > 255 THEN "False"
    ELSE IF Len(d) = 0 THEN "IndexError"
    ELSE LET stripped == IF d[Len(d)] = Ch.dot THEN Slice(d, 0, Len(d) - 1) ELSE d
         IN  IF UrlAllowedMatch(stripped) THEN "True" ELSE "False"

\* The scheme UrlParser.__parse stores for a matched scheme group.
UrlSchemeOf(sch) == IF StartsWith(sch, S_http) THEN sch ELSE S_http

\* UrlParser.__init__ followed by __parse: the exception that leaves the
\* constructor ("" for none) and the fields as they are at that point.
UrlParse(input) ==
    LET u == IF ~Contains(input, S_schemeSep) THEN S_httpPrefix \o input ELSE input
        m == MatchUri(u)
        blank == [ url |-> u, scheme |-> <<>>, authority |-> <<>>,
                   domain |-> <<>>, path |-> <<>>, query |-> <<>> ]
        scheme == IF m.hasScheme THEN UrlSchemeOf(m.scheme) ELSE <<>>
        authTruthy == m.hasAuth /\ Len(m.authority) > 0
        dom == IF authTruthy THEN LowerStr(Split(m.authority, Ch.colon)[1]) ELSE <<>>
        valid == IF authTruthy THEN UrlValidateDomain(dom) ELSE "True"
        afterAuth == [ blank EXCEPT !.scheme = scheme,
                                    !.authority = IF authTruthy THEN m.authority ELSE <<>>,
                                    !.domain = dom ]
    IN  IF ~m.matched THEN [ exc |-> "", obj |-> blank ]
        ELSE IF valid = "IndexError" THEN [ exc |-> "IndexError", obj |-> afterAuth ]
        ELSE IF valid = "False" THEN [ exc |-> "ValueError", obj |-> afterAuth ]
        ELSE [ exc |-> "",
               obj |-> [ afterAuth EXCEPT
                           !.path = m.path,
                           !.query = IF m.hasQuery /\ Len(m.query) > 0
                                     THEN << Ch.qmark >> \o m.query ELSE <<>> ] ]

\* UrlParser.get_full_uri.
GetFullUriOf(o) == o.scheme \o S_schemeSep \o o.domain \o o.path \o o.query

(***************************************************************************)
(* The inputs of the URL parser: a scheme prefix, a host over a small      *)
(* alphabet, an optional port and a tail of path, query and fragment.      *)
(***************************************************************************)
MaxHostLen == 4

UrlHostAlphabet == { 97, 66, Ch.hyphen, Ch.dot }     \* a B - .

UrlPrefixes ==
    { <<>>,
      S_httpPrefix,
      << 104, 116, 116, 112, 115, 58, 47, 47 >>,          \* "https://"
      << 104, 116, 116, 112, 120, 58, 47, 47 >>,          \* "httpx://"
      << 102, 116, 112, 58, 47, 47 >>,                    \* "ftp://"
      << 72, 84, 84, 80, 58, 47, 47 >> }                  \* "HTTP://"

UrlPorts == { <<>>, << 58, 56, 48 >> }                    \* "", ":80"

UrlTails ==
    { <<>>,
      << 47, 112 >>,                                      \* "/p"
      << 47, 112, 63, 113 >>,                             \* "/p?q"
      << 63 >>,                                           \* "?"
      << 63, 113, 35, 102 >>,                             \* "?q#f"
      << 32, 120 >> }                                     \* " x"

UrlInputs ==
    { p \o h \o o \o t : p \in UrlPrefixes, h \in StringsUpTo(UrlHostAlphabet, MaxHostLen),
                         o \in UrlPorts, t \in UrlTails }

NoUrlObject == [ url |-> <<>>, scheme |-> <<>>, authority |-> <<>>,
                 domain |-> <<>>, path |-> <<>>, query |-> <<>> ]

\* The generator before main reaches it.
GenIdle ==
    /\ g_input = <<>>
    /\ g_pc = "idle"
    /\ dfuzz = [ subdomain |-> <<>>, domain |-> <<>>, tld |-> <<>> ]
    /\ domains = <<>>
    /\ emitted = <<>>
    /\ hashOrder = "fwd"
    /\ dictionary = [ useDict |-> FALSE, ddict |-> <<>>, useTld |-> FALSE, tlddict |-> <<>> ]
    /\ jobs = <<>>

UrlInit ==
    /\ u_input \in UrlInputs
    /\ u_pc = "new"
    /\ u_exc = ""
    /\ url = NoUrlObject
    /\ full_uri = [ called |-> FALSE, value |-> <<>> ]
    /\ GenIdle
    /\ PoolIdle

\* url = UrlParser(args["DOMAIN"])
UrlParserInit ==
    /\ u_pc = "new"
    /\ LET r == UrlParse(u_input)
       IN  /\ u_exc' = r.exc
           /\ u_pc' = IF r.exc = "" THEN "parsed" ELSE "raised"
           /\ url' = r.obj
    /\ UNCHANGED << u_input, full_uri >>
    /\ UNCHANGED notUrl

\* url.get_full_uri()
GetFullUri ==
    /\ u_pc = "parsed"
    /\ ~full_uri.called
    /\ full_uri' = [ called |-> TRUE, value |-> GetFullUriOf(url) ]
    /\ UNCHANGED << u_input, u_pc, u_exc, url >>
    /\ UNCHANGED notUrl

UrlNext == UrlParserInit \/ GetFullUri

SpecUrl == UrlInit /\ [][UrlNext]_vars

(***************************************************************************)
(* DomainFuzz (src/dnstwist.py 272-824): tables.                           *)
(***************************************************************************)

\* self.qwerty: each key (ord) to its neighbours (a string).
qwerty ==
    (  49 :> <<50, 113>>
    @@ 50 :> <<51, 119, 113, 49>>
    @@ 51 :> <<52, 101, 119, 50>>
    @@ 52 :> <<53, 114, 101, 51>>
    @@ 53 :> <<54, 116, 114, 52>>
    @@ 54 :> <<55, 121, 116, 53>>
    @@ 55 :> <<56, 117, 121, 54>>
    @@ 56 :> <<57, 105, 117, 55>>
    @@ 57 :> <<48, 111, 105, 56>>
    @@ 48 :> <<112, 111, 57>>
    @@ 113 :> <<49, 50, 119, 97>>
    @@ 119 :> <<51, 101, 115, 97, 113, 50>>
    @@ 101 :> <<52, 114, 100, 115, 119, 51>>
    @@ 114 :> <<53, 116, 102, 100, 101, 52>>
    @@ 116 :> <<54, 121, 103, 102, 114, 53>>
    @@ 121 :> <<55, 117, 104, 103, 116, 54>>
    @@ 117 :> <<56, 105, 106, 104, 121, 55>>
    @@ 105 :> <<57, 111, 107, 106, 117, 56>>
    @@ 111 :> <<48, 112, 108, 107, 105, 57>>
    @@ 112 :> <<108, 111, 48>>
    @@ 97 :> <<113, 119, 115, 122>>
    @@ 115 :> <<101, 100, 120, 122, 97, 119>>
    @@ 100 :> <<114, 102, 99, 120, 115, 101>>
    @@ 102 :> <<116, 103, 118, 99, 100, 114>>
    @@ 103 :> <<121, 104, 98, 118, 102, 116>>
    @@ 104 :> <<117, 106, 110, 98, 103, 121>>
    @@ 106 :> <<105, 107, 109, 110, 104, 117>>
    @@ 107 :> <<111, 108, 109, 106, 105>>
    @@ 108 :> <<107, 111, 112>>
    @@ 122 :> <<97, 115, 120>>
    @@ 120 :> <<122, 115, 100, 99>>
    @@ 99 :> <<120, 100, 102, 118>>
    @@ 118 :> <<99, 102, 103, 98>>
    @@ 98 :> <<118, 103, 104, 110>>
    @@ 110 :> <<98, 104, 106, 109>>
    @@ 109 :> <<110, 106, 107>> )

\* self.qwertz
qwertz ==
    (  49 :> <<50, 113>>
    @@ 50 :> <<51, 119, 113, 49>>
    @@ 51 :> <<52, 101, 119, 50>>
    @@ 52 :> <<53, 114, 101, 51>>
    @@ 53 :> <<54, 116, 114, 52>>
    @@ 54 :> <<55, 122, 116, 53>>
    @@ 55 :> <<56, 117, 122, 54>>
    @@ 56 :> <<57, 105, 117, 55>>
    @@ 57 :> <<48, 111, 105, 56>>
    @@ 48 :> <<112, 111, 57>>
    @@ 113 :> <<49, 50, 119, 97>>
    @@ 119 :> <<51, 101, 115, 97, 113, 50>>
    @@ 101 :> <<52, 114, 100, 115, 119, 51>>
    @@ 114 :> <<53, 116, 102, 100, 101, 52>>
    @@ 116 :> <<54, 122, 103, 102, 114, 53>>
    @@ 122 :> <<55, 117, 104, 103, 116, 54>>
    @@ 117 :> <<56, 105, 106, 104, 122, 55>>
    @@ 105 :> <<57, 111, 107, 106, 117, 56>>
    @@ 111 :> <<48, 112, 108, 107, 105, 57>>
    @@ 112 :> <<108, 111, 48>>
    @@ 97 :> <<113, 119, 115, 121>>
    @@ 115 :> <<101, 100, 120, 121, 97, 119>>
    @@ 100 :> <<114, 102, 99, 120, 115, 101>>
    @@ 102 :> <<116, 103, 118, 99, 100, 114>>
    @@ 103 :> <<122, 104, 98, 118, 102, 116>>
    @@ 104 :> <<117, 106, 110, 98, 103, 122>>
    @@ 106 :> <<105, 107, 109, 110, 104, 117>>
    @@ 107 :> <<111, 108, 109, 106, 105>>
    @@ 108 :> <<107, 111, 112>>
    @@ 121 :> <<97, 115, 120>>
    @@ 120 :> <<121, 115, 100, 99>>
    @@ 99 :> <<120, 100, 102, 118>>
    @@ 118 :> <<99, 102, 103, 98>>
    @@ 98 :> <<118, 103, 104, 110>>
    @@ 110 :> <<98, 104, 106, 109>>
    @@ 109 :> <<110, 106, 107>> )

\* self.azerty
azerty ==
    (  49 :> <<50, 97>>
    @@ 50 :> <<51, 122, 97, 49>>
    @@ 51 :> <<52, 101, 122, 50>>
    @@ 52 :> <<53, 114, 101, 51>>
    @@ 53 :> <<54, 116, 114, 52>>
    @@ 54 :> <<55, 121, 116, 53>>
    @@ 55 :> <<56, 117, 121, 54>>
    @@ 56 :> <<57, 105, 117, 55>>
    @@ 57 :> <<48, 111, 105, 56>>
    @@ 48 :> <<112, 111, 57>>
    @@ 97 :> <<50, 122, 113, 49>>
    @@ 122 :> <<51, 101, 115, 113, 97, 50>>
    @@ 101 :> <<52, 114, 100, 115, 122, 51>>
    @@ 114 :> <<53, 116, 102, 100, 101, 52>>
    @@ 116 :> <<54, 121, 103, 102, 114, 53>>
    @@ 121 :> <<55, 117, 104, 103, 116, 54>>
    @@ 117 :> <<56, 105, 106, 104, 121, 55>>
    @@ 105 :> <<57, 111, 107, 106, 117, 56>>
    @@ 111 :> <<48, 112, 108, 107, 105, 57>>
    @@ 112 :> <<108, 111, 48, 109>>
    @@ 113 :> <<122, 115, 119, 97>>
    @@ 115 :> <<101, 100, 120, 119, 113, 122>>
    @@ 100 :> <<114, 102, 99, 120, 115, 101>>
    @@ 102 :> <<116, 103, 118, 99, 100, 114>>
    @@ 103 :> <<121, 104, 98, 118, 102, 116>>
    @@ 104 :> <<117, 106, 110, 98, 103, 121>>
    @@ 106 :> <<105, 107, 110, 104, 117>>
    @@ 107 :> <<111, 108, 106, 105>>
    @@ 108 :> <<107, 111, 112, 109>>
    @@ 109 :> <<108, 112>>
    @@ 119 :> <<115, 120, 113>>
    @@ 120 :> <<119, 115, 100, 99>>
    @@ 99 :> <<120, 100, 102, 118>>
    @@ 118 :> <<99, 102, 103, 98>>
    @@ 98 :> <<118, 103, 104, 110>>
    @@ 110 :> <<98, 104, 106>> )

keyboards == << qwerty, qwertz, azerty >>

\* glyphs of __homoglyph: each letter (ord) to the list of its look-alikes,
\* every look-alike a string of one or two code points.
glyphs ==
    (  97 :> << <<224>>, <<225>>, <<226>>, <<227>>, <<228>>, <<229>>, <<593>>, <<7841>>, <<462>>, <<259>>, <<551>>, <<261>> >>
    @@ 98 :> << <<100>>, <<108, 98>>, <<665>>, <<595>>, <<7683>>, <<7685>>, <<7687>>, <<389>> >>
    @@ 99 :> << <<101>>, <<392>>, <<267>>, <<263>>, <<231>>, <<269>>, <<265>> >>
    @@ 100 :> << <<98>>, <<99, 108>>, <<100, 108>>, <<599>>, <<273>>, <<271>>, <<598>>, <<7697>>, <<7691>>, <<7693>>, <<7695>>, <<7699>> >>
    @@ 101 :> << <<99>>, <<233>>, <<232>>, <<234>>, <<235>>, <<275>>, <<277>>, <<283>>, <<279>>, <<7865>>, <<281>>, <<553>>, <<583>>, <<7707>> >>
    @@ 102 :> << <<402>>, <<7711>> >>
    @@ 103 :> << <<113>>, <<610>>, <<609>>, <<289>>, <<287>>, <<501>>, <<291>>, <<285>>, <<487>>, <<485>> >>
    @@ 104 :> << <<108, 104>>, <<293>>, <<543>>, <<295>>, <<614>>, <<7719>>, <<7721>>, <<11368>>, <<7715>>, <<7717>>, <<7723>>, <<7830>> >>
    @@ 105 :> << <<49>>, <<108>>, <<237>>, <<236>>, <<239>>, <<305>>, <<617>>, <<464>>, <<301>>, <<7881>>, <<7883>>, <<616>>, <<523>>, <<299>> >>
    @@ 106 :> << <<669>>, <<585>> >>
    @@ 107 :> << <<108, 107>>, <<105, 107>>, <<108, 99>>, <<7731>>, <<7733>>, <<11370>>, <<311>> >>
    @@ 108 :> << <<49>>, <<105>>, <<619>>, <<322>> >>
    @@ 109 :> << <<110>>, <<110, 110>>, <<114, 110>>, <<114, 114>>, <<7745>>, <<7747>>, <<7437>>, <<625>>, <<7743>> >>
    @@ 110 :> << <<109>>, <<114>>, <<324>>, <<7749>>, <<7751>>, <<7753>>, <<241>>, <<326>>, <<505>>, <<328>>, <<42897>> >>
    @@ 111 :> << <<48>>, <<559>>, <<7885>>, <<7887>>, <<417>>, <<243>>, <<246>> >>
    @@ 112 :> << <<447>>, <<421>>, <<7765>>, <<7767>> >>
    @@ 113 :> << <<103>>, <<672>> >>
    @@ 114 :> << <<640>>, <<636>>, <<637>>, <<341>>, <<343>>, <<345>>, <<589>>, <<638>>, <<531>>, <<529>>, <<7769>>, <<7771>>, <<7775>> >>
    @@ 115 :> << <<642>>, <<347>>, <<7779>>, <<7777>>, <<537>>, <<349>>, <<353>> >>
    @@ 116 :> << <<355>>, <<359>>, <<7787>>, <<7789>>, <<539>>, <<427>> >>
    @@ 117 :> << <<7452>>, <<468>>, <<365>>, <<252>>, <<649>>, <<249>>, <<250>>, <<251>>, <<361>>, <<363>>, <<371>>, <<432>>, <<367>>, <<369>>, <<533>>, <<535>>, <<7909>> >>
    @@ 118 :> << <<7807>>, <<11377>>, <<7564>>, <<7805>>, <<11380>> >>
    @@ 119 :> << <<118, 118>>, <<373>>, <<7809>>, <<7811>>, <<7813>>, <<11379>>, <<7815>>, <<7817>>, <<7832>> >>
    @@ 121 :> << <<655>>, <<253>>, <<255>>, <<375>>, <<436>>, <<563>>, <<591>>, <<7935>>, <<7823>>, <<7925>> >>
    @@ 122 :> << <<656>>, <<380>>, <<378>>, <<7458>>, <<438>>, <<7827>>, <<7829>>, <<11372>> >> )

(***************************************************************************)
(* Python's "idna" codec as DomainFuzz.__validate_domain and the worker    *)
(* use it: ASCII labels pass unchanged when 1..63 long, other labels go    *)
(* through nameprep and Punycode (RFC 3492) and get the "xn--" prefix.     *)
(***************************************************************************)

IsAscii(s) == \A i \in 1..Len(s) : s[i] < 128

S_ace == << 120, 110, 45, 45 >>                          \* "xn--"

\* A Punycode digit 0..35 as a character: a..z, 0..9.
PunyDigit(d) == IF d < 26 THEN 97 + d ELSE 22 + d

\* The threshold t of RFC 3492 for position k under the bias.
PunyT(k, bias) == IF k <= bias THEN 1 ELSE IF k >= bias + 26 THEN 26 ELSE k - bias

\* The variable-length integer q as Punycode digits.
RECURSIVE PunyVarInt(_, _, _)
PunyVarInt(q, k, bias) ==
    LET t == PunyT(k, bias)
    IN  IF q < t THEN << PunyDigit(q) >>
        ELSE << PunyDigit(t + ((q - t) % (36 - t))) >>
             \o PunyVarInt((q - t) \div (36 - t), k + 36, bias)

RECURSIVE PunyAdaptLoop(_, _)
PunyAdaptLoop(delta, k) ==
    IF delta > 455 THEN PunyAdaptLoop(delta \div 35, k + 36)
    ELSE k + ((36 * delta) \div (delta + 38))

\* Bias adaptation of RFC 3492.
PunyAdapt(delta, numpoints, first) ==
    LET d1 == IF first THEN delta \div 700 ELSE delta \div 2
    IN  PunyAdaptLoop(d1 + (d1 \div numpoints), 0)

\* The main loop of the encoder over state st = [n, delta, bias, h, out]:
\* one pass over the input at index i for the current code point st.n.
RECURSIVE PunyScan(_, _, _, _)
PunyScan(s, i, b, st) ==
    IF i > Len(s) THEN st
    ELSE IF s[i] < st.n
         THEN PunyScan(s, i + 1, b, [ st EXCEPT !.delta = st.delta + 1 ])
    ELSE IF s[i] = st.n
         THEN PunyScan(s, i + 1, b,
                       [ st EXCEPT !.out = st.out \o PunyVarInt(st.delta, 36, st.bias),
                                   !.bias = PunyAdapt(st.delta, st.h + 1, st.h = b),
                                   !.delta = 0,
                                   !.h = st.h + 1 ])
    ELSE PunyScan(s, i + 1, b, st)

RECURSIVE PunyLoop(_, _, _)
PunyLoop(s, b, st) ==
    IF st.h >= Len(s) THEN st.out
    ELSE LET rest == { s[i] : i \in { k \in 1..Len(s) : s[k] >= st.n } }
             m == CHOOSE x \in rest : \A y \in rest : x <= y
             st1 == [ st EXCEPT !.delta = st.delta + (m - st.n) * (st.h + 1), !.n = m ]
             st2 == PunyScan(s, 1, b, st1)
         IN  PunyLoop(s, b, [ st2 EXCEPT !.delta = st2.delta + 1, !.n = st2.n + 1 ])

\* label.encode("punycode")
PunycodeEncode(s) ==
    LET basic == SelectSeq(s, LAMBDA c : c < 128)
        b == Len(basic)
        start == IF b > 0 THEN basic \o << Ch.hyphen >> ELSE <<>>
    IN  PunyLoop(s, b, [ n |-> 128, delta |-> 0, bias |-> 72, h |-> b, out |-> start ])

\* nameprep on the characters of the candidates: ASCII and Latin-1 capitals
\* are case-folded; every look-alike of the glyphs table is left as it is.
Nameprep(label) == LowerStr(label)

\* encodings.idna.ToASCII for one label: [ok, val].
ToASCII(label) ==
    IF IsAscii(label)
    THEN [ ok |-> Len(label) \in 1..63, val |-> label ]
    ELSE LET prepped == Nameprep(label)
         IN  IF IsAscii(prepped) THEN [ ok |-> Len(prepped) \in 1..63, val |-> prepped ]
             ELSE IF StartsWith(prepped, S_ace) THEN [ ok |-> FALSE, val |-> <<>> ]
             ELSE LET ace == S_ace \o PunycodeEncode(prepped)
                  IN  [ ok |-> Len(ace) \in 1..63, val |-> ace ]

\* s.encode("idna").decode(): [ok, val]; ok = FALSE stands for UnicodeError.
IdnaEncode(s) ==
    IF Len(s) = 0 THEN [ ok |-> TRUE, val |-> <<>> ]
    ELSE LET labels == Split(s, Ch.dot)
             n == Len(labels)
         IN  IF IsAscii(s)
             THEN [ ok |-> /\ \A i \in 1..(n - 1) : Len(labels[i]) \in 1..63
                           /\ Len(labels[n]) < 64,
                    val |-> s ]
             ELSE LET trailing == Len(labels[n]) = 0
                      body == IF trailing THEN SubSeq(labels, 1, n - 1) ELSE labels
                      enc == [ i \in 1..Len(body) |-> ToASCII(body[i]) ]
                  IN  [ ok |-> \A i \in 1..Len(body) : enc[i].ok,
                        val |-> Join([ i \in 1..Len(body) |-> enc[i].val ], Ch.dot)
                                \o (IF trailing THEN << Ch.dot >> ELSE <<>>) ]

\* The value of a Punycode digit after str.upper(): A..Z are 0..25, 0..9 are 26..35.
PunyDigitValue(c) ==
    IF c \in 97..122 THEN c - 97 ELSE IF c \in 65..90 THEN c - 65 ELSE c - 22

\* decode_generalized_number: the integer that starts at index at of ext
\* and the index after it.
RECURSIVE PunyNumber(_, _, _, _, _, _)
PunyNumber(ext, at, bias, k, w, acc) ==
    LET digit == PunyDigitValue(ext[at])
        t == PunyT(k, bias)
    IN  IF digit < t THEN [ next |-> at + 1, delta |-> acc + digit * w ]
        ELSE PunyNumber(ext, at + 1, bias, k + 36, w * (36 - t), acc + digit * w)

\* One insertion of insertion_sort: the code point char advanced by the
\* wrapped position p1, put into base at the position left.
PunyInsertAt(base, char, p1) ==
    LET at == p1 % (Len(base) + 1)
    IN  [ base |-> Slice(base, 0, at) \o << char + (p1 \div (Len(base) + 1)) >>
                   \o Slice(base, at, Len(base)),
          char |-> char + (p1 \div (Len(base) + 1)),
          pos |-> at ]

\* insertion_sort of encodings.punycode.
RECURSIVE PunyInsert(_, _, _, _, _, _)
PunyInsert(base, ext, at, char, pos, bias) ==
    IF at > Len(ext) THEN base
    ELSE LET num == PunyNumber(ext, at, bias, 36, 1, 0)
             ins == PunyInsertAt(base, char, pos + num.delta + 1)
         IN  PunyInsert(ins.base, ext, num.next, ins.char, ins.pos,
                        PunyAdapt(num.delta, Len(base) + 1, at = 1))

\* Index (1-based) of the last hyphen of text, 0 if there is none: rfind.
LastHyphen(text) ==
    LET at == { i \in 1..Len(text) : text[i] = Ch.hyphen }
    IN  IF at = {} THEN 0 ELSE CHOOSE i \in at : \A j \in at : j <= i

\* text.decode("punycode")
PunycodeDecode(text) ==
    PunyInsert(Slice(text, 0, LastHyphen(text) - 1),
               Slice(text, LastHyphen(text), Len(text)), 1, 128, -1, 72)

\* encodings.idna.ToUnicode for one ASCII label: [ok, val].
ToUnicode(label) ==
    IF ~StartsWith(label, S_ace) THEN [ ok |-> TRUE, val |-> label ]
    ELSE LET result == PunycodeDecode(Slice(label, Len(S_ace), Len(label)))
         IN  [ ok |-> ToASCII(result).ok /\ ToASCII(result).val = LowerStr(label),
               val |-> result ]

\* A decode that leaves every label as it is.
IdnaDecode_ascii(s) == [ ok |-> TRUE, val |-> s ]

\* s.encode().decode("idna") for an ASCII s: [ok, val].
IdnaDecode(s) ==
    IF ~Contains(s, S_ace) THEN [ ok |-> TRUE, val |-> s ]
    ELSE LET labels == Split(s, Ch.dot)
             n == Len(labels)
             trailing == Len(labels[n]) = 0
             body == IF trailing THEN SubSeq(labels, 1, n - 1) ELSE labels
         IN  [ ok |-> \A i \in 1..Len(body) : ToUnicode(body[i]).ok,
               val |-> Join([ i \in 1..Len(body) |-> ToUnicode(body[i]).val ], Ch.dot)
                       \o (IF trailing THEN << Ch.dot >> ELSE <<>>) ]

\* One label of "(?!-)[a-zA-Z0-9-]{1,63}(?<!-)".
IsLdhLabel(l) ==
    /\ Len(l) \in 1..63
    /\ \A i \in 1..Len(l) : IsAsciiAlpha(l[i]) \/ IsDigit(l[i]) \/ l[i] = Ch.hyphen
    /\ l[1] # Ch.hyphen /\ l[Len(l)] # Ch.hyphen

\* A variant of allowed.match that wants a last label of at least three letters.
AllowedMatch_tld3(s) ==
    /\ Len(s) \in 4..253
    /\ LET t == IF s[Len(s)] = Ch.dot THEN Slice(s, 0, Len(s) - 1) ELSE s
           labels == Split(t, Ch.dot)
           n == Len(labels)
       IN  /\ n >= 2
           /\ \A i \in 1..(n - 1) : IsLdhLabel(labels[i])
           /\ Len(labels[n]) \in 3..63
           /\ \A i \in 1..Len(labels[n]) : IsAsciiAlpha(labels[n][i])

\* allowed.match of DomainFuzz.__validate_domain:
\* "(?=^.{4,253}$)(^((?!-)[a-zA-Z0-9-]{1,63}(?<!-)\.)+[a-zA-Z]{2,63}\.?$)".
AllowedMatch(s) ==
    /\ Len(s) \in 4..253
    /\ LET t == IF s[Len(s)] = Ch.dot THEN Slice(s, 0, Len(s) - 1) ELSE s
           labels == Split(t, Ch.dot)
           n == Len(labels)
       IN  /\ n >= 2
           /\ \A i \in 1..(n - 1) : IsLdhLabel(labels[i])
           /\ Len(labels[n]) \in 2..63
           /\ \A i \in 1..Len(labels[n]) : IsAsciiAlpha(labels[n][i])

\* DomainFuzz.__validate_domain.
ValidateDomain(d) ==
    LET e == IdnaEncode(d)
    IN  /\ e.ok
        /\ ~(Len(d) = Len(e.val) /\ d # e.val)
        /\ AllowedMatch(e.val)

(***************************************************************************)
(* The mutation strategies of DomainFuzz, each a function of self.domain   *)
(* (the registrable).  A strategy that ends in list(set(result)) yields a  *)
(* set here; the order in which Python lists it is chosen by ListOfSet.    *)
(***************************************************************************)

\* The concatenation of a sequence of sequences.
RECURSIVE Flatten(_)
Flatten(ss) == IF Len(ss) = 0 THEN <<>> ELSE ss[1] \o Flatten(Tail(ss))

Range(f) == { f[i] : i \in DOMAIN f }

Reverse(q) == [ i \in 1..Len(q) |-> q[Len(q) + 1 - i] ]

\* a ^ b on non-negative integers.
RECURSIVE Xor(_, _)
Xor(a, b) ==
    IF a = 0 /\ b = 0 THEN 0
    ELSE (((a % 2) + (b % 2)) % 2) + 2 * Xor(a \div 2, b \div 2)

\* The masks of the six low bits only.
masks_low == << 1, 2, 4, 8, 16, 32 >>

masks == << 1, 2, 4, 8, 16, 32, 64, 128 >>

\* DomainFuzz.__bitsquatting
Bitsquatting(dom) ==
    Flatten([ i \in 1..Len(dom) |->
        Flatten([ j \in 1..Len(masks) |->
            LET o == Xor(dom[i], masks[j])
            IN  IF (o >= 48 /\ o <= 57) \/ (o >= 97 /\ o <= 122) \/ o = 45
                THEN << Slice(dom, 0, i - 1) \o << o >> \o Slice(dom, i, Len(dom)) >>
                ELSE <<>> ]) ])

\* win.replace(c, g): every occurrence of the character c replaced by g.
RECURSIVE Replace(_, _, _)
Replace(win, c, g) ==
    IF Len(win) = 0 THEN <<>>
    ELSE (IF win[1] = c THEN g ELSE << win[1] >>) \o Replace(Tail(win), c, g)

\* One pass of __homoglyph over the string d: every window, every character
\* of the window that has look-alikes, every look-alike.
HomoglyphPass(d) ==
    UNION { UNION { UNION {
        { Slice(d, 0, i) \o Replace(Slice(d, i, i + ws), Slice(d, i, i + ws)[j], g)
                         \o Slice(d, i + ws, Len(d))
            : g \in Range(glyphs[Slice(d, i, i + ws)[j]]) }
          : j \in { k \in 1..ws : Slice(d, i, i + ws)[k] \in DOMAIN glyphs } }
        : i \in 0..(Len(d) - ws) }
      : ws \in 1..(Len(d) - 1) }

\* DomainFuzz.__homoglyph (as a set: result_1pass | result_2pass)
Homoglyph(dom) ==
    LET result_1pass == HomoglyphPass(dom)
        result_2pass == UNION { HomoglyphPass(d) : d \in result_1pass }
    IN  result_1pass \cup result_2pass

\* A hyphen at every offset, both ends included.
Hyphenation_edges(dom) ==
    [ i \in 1..(Len(dom) + 1) |->
        Slice(dom, 0, i - 1) \o << Ch.hyphen >> \o Slice(dom, i - 1, Len(dom)) ]

\* DomainFuzz.__hyphenation
Hyphenation(dom) ==
    [ i \in 1..(Len(dom) - 1) |->
        Slice(dom, 0, i) \o << Ch.hyphen >> \o Slice(dom, i, Len(dom)) ]

\* DomainFuzz.__insertion (as a set)
Insertion(dom) ==
    UNION { UNION { UNION {
        { Slice(dom, 0, i) \o << keyboards[k][dom[i + 1]][n], dom[i + 1] >>
                           \o Slice(dom, i + 1, Len(dom)),
          Slice(dom, 0, i) \o << dom[i + 1], keyboards[k][dom[i + 1]][n] >>
                           \o Slice(dom, i + 1, Len(dom)) }
            : n \in 1..Len(keyboards[k][dom[i + 1]]) }
          : k \in { kk \in 1..Len(keyboards) : dom[i + 1] \in DOMAIN keyboards[kk] } }
        : i \in 1..(Len(dom) - 2) }

\* re.sub(r"(.)\1+", r"\1", s): every run of a repeated character collapsed.
RECURSIVE CollapseRuns(_)
CollapseRuns(s) ==
    IF Len(s) <= 1 THEN s
    ELSE IF s[1] = s[2] THEN CollapseRuns(Tail(s))
    ELSE << s[1] >> \o CollapseRuns(Tail(s))

\* The deletions of one character alone.
Omission_deletions(dom) ==
    { Slice(dom, 0, i) \o Slice(dom, i + 1, Len(dom)) : i \in 0..(Len(dom) - 1) }

\* DomainFuzz.__omission (as a set)
Omission(dom) ==
    LET result == { Slice(dom, 0, i) \o Slice(dom, i + 1, Len(dom)) : i \in 0..(Len(dom) - 1) }
        n == CollapseRuns(dom)
    IN  IF n \notin result /\ n # dom THEN result \cup { n } ELSE result

\* DomainFuzz.__repetition (as a set); str.isalpha on an ASCII character.
Repetition(dom) ==
    { Slice(dom, 0, i) \o << dom[i + 1], dom[i + 1] >> \o Slice(dom, i + 1, Len(dom))
        : i \in { k \in 0..(Len(dom) - 1) : IsAsciiAlpha(dom[k + 1]) } }

\* DomainFuzz.__replacement (as a set)
Replacement(dom) ==
    UNION { UNION {
        { Slice(dom, 0, i) \o << keyboards[k][dom[i + 1]][n] >> \o Slice(dom, i + 1, Len(dom))
            : n \in 1..Len(keyboards[k][dom[i + 1]]) }
          : k \in { kk \in 1..Len(keyboards) : dom[i + 1] \in DOMAIN keyboards[kk] } }
        : i \in 0..(Len(dom) - 1) }

\* The positions range(1, len(self.domain) - 3) of __subdomain that pass
\* its test, in order.
SubdomainPositions(dom) ==
    SelectSeq([ k \in 1..(Len(dom) - 4) |-> k ],
              LAMBDA i : /\ dom[i + 1] \notin { Ch.hyphen, Ch.dot }
                         /\ dom[i] \notin { Ch.hyphen, Ch.dot })

\* DomainFuzz.__subdomain
Subdomain(dom) ==
    LET at == SubdomainPositions(dom)
    IN  [ n \in 1..Len(at) |->
            Slice(dom, 0, at[n]) \o << Ch.dot >> \o Slice(dom, at[n], Len(dom)) ]

\* Every position of __transposition, equal neighbours included.
TranspositionPositions_all(dom) == [ k \in 1..(Len(dom) - 1) |-> k - 1 ]

\* The positions of __transposition whose two characters differ, in order.
TranspositionPositions(dom) ==
    SelectSeq([ k \in 1..(Len(dom) - 1) |-> k - 1 ], LAMBDA i : dom[i + 2] # dom[i + 1])

\* DomainFuzz.__transposition
Transposition(dom) ==
    LET at == TranspositionPositions(dom)
    IN  [ n \in 1..Len(at) |->
            Slice(dom, 0, at[n]) \o << dom[at[n] + 2], dom[at[n] + 1] >>
                                 \o Slice(dom, at[n] + 2, Len(dom)) ]

vowels == << 97, 101, 105, 111, 117 >>                   \* "aeiou"

\* DomainFuzz.__vowel_swap (as a set)
VowelSwap(dom) ==
    UNION { { Slice(dom, 0, i) \o << vowels[v] >> \o Slice(dom, i + 1, Len(dom))
                : v \in 1..Len(vowels) }
            : i \in { k \in 0..(Len(dom) - 1) : dom[k + 1] \in Range(vowels) } }

\* DomainFuzz.__addition
Addition(dom) == [ i \in 1..26 |-> dom \o << 96 + i >> ]

(***************************************************************************)
(* Python lists a set in the order of its hash table, which differs from   *)
(* run to run.  Two of these orders are modelled: the strings sorted       *)
(* character by character, and the reverse.                                *)
(***************************************************************************)

\* The concatenation of ss[lo..hi], by halves.
RECURSIVE FlattenRange(_, _, _)
FlattenRange(ss, lo, hi) ==
    IF lo > hi THEN <<>>
    ELSE IF lo = hi THEN ss[lo]
    ELSE LET mid == (lo + hi) \div 2
         IN  FlattenRange(ss, lo, mid) \o FlattenRange(ss, mid + 1, hi)

\* A finite set of integers as an ascending sequence.
RECURSIVE Ascending(_)
Ascending(S) ==
    IF S = {} THEN <<>>
    ELSE LET m == CHOOSE x \in S : \A y \in S : x <= y
         IN  << m >> \o Ascending(S \ { m })

\* The strings of S, which agree on their first pos - 1 characters, sorted.
RECURSIVE SortedFrom(_, _)
SortedFrom(S, pos) ==
    IF S = {} THEN <<>>
    ELSE LET ended == { x \in S : Len(x) < pos }
             longer == S \ ended
             heads == Ascending({ x[pos] : x \in longer })
             groups == [ k \in 1..Len(heads) |->
                           SortedFrom({ x \in longer : x[pos] = heads[k] }, pos + 1) ]
         IN  (IF ended = {} THEN <<>> ELSE << CHOOSE x \in ended : TRUE >>)
             \o FlattenRange(groups, 1, Len(groups))

\* list(S) under the given order.
ListOfSet(S, order) ==
    IF order = "fwd" THEN SortedFrom(S, 1) ELSE Reverse(SortedFrom(S, 1))

(***************************************************************************)
(* DomainFuzz.__init__, generate and __filter_domains.                     *)
(***************************************************************************)

\* ctld of __domain_tld.
ctld ==
    { << 111, 114, 103 >>, << 99, 111, 109 >>, << 110, 101, 116 >>,       \* org com net
      << 103, 111, 118 >>, << 101, 100, 117 >>, << 99, 111 >>,            \* gov edu co
      << 109, 105, 108 >>, << 110, 111, 109 >>, << 97, 99 >>,             \* mil nom ac
      << 105, 110, 102, 111 >>, << 98, 105, 122 >> }                      \* info biz

\* domain.rsplit(".", 3): at most four parts, the first holding the rest.
RSplit3(d) ==
    LET parts == Split(d, Ch.dot)
        n == Len(parts)
    IN  IF n <= 4 THEN parts
        ELSE << Join(SubSeq(parts, 1, n - 3), Ch.dot), parts[n - 2], parts[n - 1], parts[n] >>

\* DomainFuzz.__domain_tld without the public-suffix package: the triple,
\* or ok = FALSE where the method falls off its end and returns None.
DomainTld(d) ==
    LET p == RSplit3(d)
        n == Len(p)
    IN  IF n = 2 THEN [ ok |-> TRUE, subdomain |-> <<>>, domain |-> p[1], tld |-> p[2] ]
        ELSE IF n > 2
        THEN IF p[n - 1] \in ctld
             THEN [ ok |-> TRUE, subdomain |-> Join(SubSeq(p, 1, n - 3), Ch.dot),
                    domain |-> p[n - 2], tld |-> p[n - 1] \o << Ch.dot >> \o p[n] ]
             ELSE [ ok |-> TRUE, subdomain |-> Join(SubSeq(p, 1, n - 2), Ch.dot),
                    domain |-> p[n - 1], tld |-> p[n] ]
        ELSE [ ok |-> FALSE, subdomain |-> <<>>, domain |-> <<>>, tld |-> <<>> ]

\* ".".join(filter(None, [subdomain, domain, tld]))
FullName(sub, dom, tld) == Join(NonEmpty(<< sub, dom, tld >>), Ch.dot)

\* The records generate() appends for one strategy's results.
Tagged(fz, tag, results) ==
    [ i \in 1..Len(results) |->
        [ fuzzer |-> tag, domain_name |-> FullName(fz.subdomain, results[i], fz.tld) ] ]

S_com == << 99, 111, 109 >>                              \* "com"
S_dotcom == << 46, 99, 111, 109 >>                       \* ".com"

\* The "Various" records of generate().
Various(fz) ==
    LET multi == HasChar(fz.tld, Ch.dot)
        last == LET t == Split(fz.tld, Ch.dot) IN t[Len(t)]
    IN  (IF multi
         THEN << [ fuzzer |-> "Various", domain_name |-> fz.domain \o << Ch.dot >> \o last ],
                 [ fuzzer |-> "Various", domain_name |-> fz.domain \o fz.tld ] >>
         ELSE <<>>)
        \o (IF ~multi
            THEN << [ fuzzer |-> "Various",
                      domain_name |-> fz.domain \o fz.tld \o << Ch.dot >> \o fz.tld ] >>
            ELSE <<>>)
        \o (IF fz.tld # S_com /\ ~multi
            THEN << [ fuzzer |-> "Various",
                      domain_name |-> fz.domain \o << Ch.hyphen >> \o fz.tld \o S_dotcom ] >>
            ELSE <<>>)

\* A variant of the filter's test that does not consult the seen set.
FilterKeeps_noSeen(list, i) == ValidateDomain(list[i].domain_name)

\* Whether list[i] is kept by __filter_domains: valid and not seen before.
FilterKeeps(list, i) ==
    /\ ValidateDomain(list[i].domain_name)
    /\ \A j \in 1..(i - 1) : list[j].domain_name # list[i].domain_name

\* DomainFuzz.__filter_domains: the filtered list.
FilterDomains(list) ==
    LET indexed == [ i \in 1..Len(list) |-> i ]
        kept == SelectSeq(indexed, LAMBDA i : FilterKeeps(list, i))
    IN  [ k \in 1..Len(kept) |-> list[kept[k]] ]

(***************************************************************************)
(* DomainDict and TldDict (src/dnstwist.py 827-874).                       *)
(***************************************************************************)

\* str.isalpha on an ASCII word.
IsAlphaWord(w) == Len(w) > 0 /\ \A i \in 1..Len(w) : IsAsciiAlpha(w[i])

\* DomainDict.load_dict: the alphabetic lines of the file, first occurrences.
LoadDict(lines) ==
    LET indexed == [ i \in 1..Len(lines) |-> i ]
        kept == SelectSeq(indexed,
                          LAMBDA i : /\ IsAlphaWord(lines[i])
                                     /\ \A j \in 1..(i - 1) : lines[j] # lines[i])
    IN  [ k \in 1..Len(kept) |-> lines[kept[k]] ]

\* DomainDict.__dictionary
DictionaryWords(dom, words) ==
    FlattenRange([ k \in 1..Len(words) |->
                     << dom \o << Ch.hyphen >> \o words[k],
                        dom \o words[k],
                        words[k] \o << Ch.hyphen >> \o dom,
                        words[k] \o dom >> ], 1, Len(words))

\* DomainDict.generate: the records it leaves in ddict.domains.
DomainDictGenerate(fz, words) == Tagged(fz, "Dictionary", DictionaryWords(fz.domain, words))

\* TldDict.generate: the records it leaves in tlddict.domains.
TldDictGenerate(fz, words) ==
    LET w == SelectSeq(words, LAMBDA t : t # fz.tld)
    IN  [ k \in 1..Len(w) |->
            [ fuzzer |-> "TLD-swap", domain_name |-> FullName(fz.subdomain, fz.domain, w[k]) ] ]

(***************************************************************************)
(* The inputs of the generator: a registrable over a small alphabet, put   *)
(* between a subdomain and a TLD.                                          *)
(***************************************************************************)
MaxRegLen == 3

FuzzAlphabet == { 108, 111, Ch.hyphen }                  \* l o -

Registrables == StringsUpTo(FuzzAlphabet, MaxRegLen) \ { <<>> }

\* (subdomain, tld): "", "com"; "w", "de"; "w", "co.uk".
FuzzContexts ==
    { << <<>>, S_com >>,
      << << 119 >>, << 100, 101 >> >>,
      << << 119 >>, << 99, 111, 46, 117, 107 >> >> }

FuzzInputs == { FullName(c[1], r, c[2]) : c \in FuzzContexts, r \in Registrables }

\* The lines of the --dictionary file: "s"; "l", "l", "o1".
DictFiles == { << << 115 >> >>, << << 108 >>, << 108 >>, << 111, 49 >> >> }

\* The lines of the --tld file: "l"; "de", "uk", "com".
TldFiles == { << << 108 >> >>, << << 100, 101 >>, << 117, 107 >>, S_com >> }

NoDictionary == [ useDict |-> FALSE, ddict |-> <<>>, useTld |-> FALSE, tlddict |-> <<>> ]

\* The URL parser after main is done with it: the domain is all the
\* generator takes from it.
UrlDone ==
    /\ u_input = <<>>
    /\ u_pc = "done"
    /\ u_exc = ""
    /\ url = NoUrlObject
    /\ full_uri = [ called |-> FALSE, value |-> <<>> ]

GenInit ==
    /\ g_input \in FuzzInputs
    /\ g_pc = "init"
    /\ dfuzz = [ subdomain |-> <<>>, domain |-> <<>>, tld |-> <<>> ]
    /\ domains = <<>>
    /\ emitted = <<>>
    /\ hashOrder \in { "fwd", "rev" }
    /\ dictionary = NoDictionary
    /\ jobs = <<>>
    /\ UrlDone
    /\ PoolIdle

\* dfuzz = DomainFuzz(url.domain): the split of the domain; TypeError when
\* __domain_tld returns None.
DomainFuzzInit ==
    /\ g_pc = "init"
    /\ LET t == DomainTld(g_input)
       IN  /\ dfuzz' = [ subdomain |-> t.subdomain, domain |-> t.domain, tld |-> t.tld ]
           /\ g_pc' = IF t.ok THEN "Original" ELSE "raised"
    /\ UNCHANGED << g_input, domains, emitted, hashOrder, dictionary, jobs >>
    /\ UNCHANGED notGen

\* generate(): the "Original*" records.
GenOriginal ==
    /\ g_pc = "Original"
    /\ domains' = domains \o << [ fuzzer |-> "Original*",
                                 domain_name |-> FullName(dfuzz.subdomain, dfuzz.domain, dfuzz.tld) ] >>
    /\ g_pc' = "Addition"
    /\ UNCHANGED << g_input, dfuzz, emitted, hashOrder, dictionary, jobs >>
    /\ UNCHANGED notGen

\* generate(): the "Addition" records.
GenAddition ==
    /\ g_pc = "Addition"
    /\ domains' = domains \o Tagged(dfuzz, "Addition", Addition(dfuzz.domain))
    /\ g_pc' = "Bitsquatting"
    /\ UNCHANGED << g_input, dfuzz, emitted, hashOrder, dictionary, jobs >>
    /\ UNCHANGED notGen

\* generate(): the "Bitsquatting" records.
GenBitsquatting ==
    /\ g_pc = "Bitsquatting"
    /\ domains' = domains \o Tagged(dfuzz, "Bitsquatting", Bitsquatting(dfuzz.domain))
    /\ g_pc' = "Homoglyph"
    /\ UNCHANGED << g_input, dfuzz, emitted, hashOrder, dictionary, jobs >>
    /\ UNCHANGED notGen

\* generate(): the "Homoglyph" records.
GenHomoglyph ==
    /\ g_pc = "Homoglyph"
    /\ domains' = domains \o Tagged(dfuzz, "Homoglyph", ListOfSet(Homoglyph(dfuzz.domain), hashOrder))
    /\ g_pc' = "Hyphenation"
    /\ UNCHANGED << g_input, dfuzz, emitted, hashOrder, dictionary, jobs >>
    /\ UNCHANGED notGen

\* generate(): the "Hyphenation" records.
GenHyphenation ==
    /\ g_pc = "Hyphenation"
    /\ domains' = domains \o Tagged(dfuzz, "Hyphenation", Hyphenation(dfuzz.domain))
    /\ g_pc' = "Insertion"
    /\ UNCHANGED << g_input, dfuzz, emitted, hashOrder, dictionary, jobs >>
    /\ UNCHANGED notGen

\* generate(): the "Insertion" records.
GenInsertion ==
    /\ g_pc = "Insertion"
    /\ domains' = domains \o Tagged(dfuzz, "Insertion", ListOfSet(Insertion(dfuzz.domain), hashOrder))
    /\ g_pc' = "Omission"
    /\ UNCHANGED << g_input, dfuzz, emitted, hashOrder, dictionary, jobs >>
    /\ UNCHANGED notGen

\* generate(): the "Omission" records.
GenOmission ==
    /\ g_pc = "Omission"
    /\ domains' = domains \o Tagged(dfuzz, "Omission", ListOfSet(Omission(dfuzz.domain), hashOrder))
    /\ g_pc' = "Repetition"
    /\ UNCHANGED << g_input, dfuzz, emitted, hashOrder, dictionary, jobs >>
    /\ UNCHANGED notGen

\* generate(): the "Repetition" records.
GenRepetition ==
    /\ g_pc = "Repetition"
    /\ domains' = domains \o Tagged(dfuzz, "Repetition", ListOfSet(Repetition(dfuzz.domain), hashOrder))
    /\ g_pc' = "Replacement"
    /\ UNCHANGED << g_input, dfuzz, emitted, hashOrder, dictionary, jobs >>
    /\ UNCHANGED notGen

\* generate(): the "Replacement" records.
GenReplacement ==
    /\ g_pc = "Replacement"
    /\ domains' = domains \o Tagged(dfuzz, "Replacement", ListOfSet(Replacement(dfuzz.domain), hashOrder))
    /\ g_pc' = "Subdomain"
    /\ UNCHANGED << g_input, dfuzz, emitted, hashOrder, dictionary, jobs >>
    /\ UNCHANGED notGen

\* generate(): the "Subdomain" records.
GenSubdomain ==
    /\ g_pc = "Subdomain"
    /\ domains' = domains \o Tagged(dfuzz, "Subdomain", Subdomain(dfuzz.domain))
    /\ g_pc' = "Transposition"
    /\ UNCHANGED << g_input, dfuzz, emitted, hashOrder, dictionary, jobs >>
    /\ UNCHANGED notGen

\* generate(): the "Transposition" records.
GenTransposition ==
    /\ g_pc = "Transposition"
    /\ domains' = domains \o Tagged(dfuzz, "Transposition", Transposition(dfuzz.domain))
    /\ g_pc' = "VowelSwap"
    /\ UNCHANGED << g_input, dfuzz, emitted, hashOrder, dictionary, jobs >>
    /\ UNCHANGED notGen

\* generate(): the "Vowel-swap" records.
GenVowelSwap ==
    /\ g_pc = "VowelSwap"
    /\ domains' = domains \o Tagged(dfuzz, "Vowel-swap", ListOfSet(VowelSwap(dfuzz.domain), hashOrder))
    /\ g_pc' = "Various"
    /\ UNCHANGED << g_input, dfuzz, emitted, hashOrder, dictionary, jobs >>
    /\ UNCHANGED notGen

\* generate(): the "Various" records.
GenVarious ==
    /\ g_pc = "Various"
    /\ domains' = domains \o Various(dfuzz)
    /\ g_pc' = "filter"
    /\ UNCHANGED << g_input, dfuzz, emitted, hashOrder, dictionary, jobs >>
    /\ UNCHANGED notGen

\* generate(): self.__filter_domains(), its last statement.
GenFilter ==
    /\ g_pc = "filter"
    /\ emitted' = domains
    /\ domains' = FilterDomains(domains)
    /\ g_pc' = "dictionary"
    /\ UNCHANGED << g_input, dfuzz, hashOrder, dictionary, jobs >>
    /\ UNCHANGED notGen

\* main: without --dictionary nothing is added.
MainNoDictionary ==
    /\ g_pc = "dictionary"
    /\ g_pc' = "tld"
    /\ UNCHANGED << g_input, dfuzz, domains, emitted, hashOrder, dictionary, jobs >>
    /\ UNCHANGED notGen

\* main: with --dictionary, ddict = DomainDict(url.domain); load_dict;
\* generate; domains += ddict.domains.
MainDictionary ==
    /\ g_pc = "dictionary"
    /\ \E file \in DictFiles :
          LET words == LoadDict(file)
          IN  /\ dictionary' = [ dictionary EXCEPT !.useDict = TRUE, !.ddict = words ]
              /\ domains' = domains \o DomainDictGenerate(dfuzz, words)
    /\ g_pc' = "tld"
    /\ UNCHANGED << g_input, dfuzz, emitted, hashOrder, jobs >>
    /\ UNCHANGED notGen

\* main: without --tld nothing is added.
MainNoTld ==
    /\ g_pc = "tld"
    /\ g_pc' = "put"
    /\ UNCHANGED << g_input, dfuzz, domains, emitted, hashOrder, dictionary, jobs >>
    /\ UNCHANGED notGen

\* main: with --tld, tlddict = TldDict(url.domain); load_dict; generate;
\* domains += tlddict.domains.
MainTld ==
    /\ g_pc = "tld"
    /\ \E file \in TldFiles :
          LET words == LoadDict(file)
          IN  /\ dictionary' = [ dictionary EXCEPT !.useTld = TRUE, !.tlddict = words ]
              /\ domains' = domains \o TldDictGenerate(dfuzz, words)
    /\ g_pc' = "put"
    /\ UNCHANGED << g_input, dfuzz, emitted, hashOrder, jobs >>
    /\ UNCHANGED notGen

\* main: for i in range(len(domains)): jobs.put(domains[i])
MainPut ==
    /\ g_pc = "put"
    /\ jobs' = [ i \in 1..Len(domains) |-> i ]
    /\ g_pc' = "queued"
    /\ UNCHANGED << g_input, dfuzz, domains, emitted, hashOrder, dictionary >>
    /\ UNCHANGED notGen

GenNext ==
    \/ DomainFuzzInit
    \/ GenOriginal
    \/ GenAddition
    \/ GenBitsquatting
    \/ GenHomoglyph
    \/ GenHyphenation
    \/ GenInsertion
    \/ GenOmission
    \/ GenRepetition
    \/ GenReplacement
    \/ GenSubdomain
    \/ GenTransposition
    \/ GenVowelSwap
    \/ GenVarious
    \/ GenFilter
    \/ MainNoDictionary
    \/ MainDictionary
    \/ MainNoTld
    \/ MainTld
    \/ MainPut

SpecFuzz == GenInit /\ [][GenNext]_vars

(***************************************************************************)
(* DomainThread (src/dnstwist.py 877-1133) and main's worker pool          *)
(* (1380-1448), with sigint_handler (203-210).                             *)
(***************************************************************************)
MaxWorkers == 2
MaxJobs == 2
MaxEnabled == 1

Workers == 1..MaxWorkers

\* The optional probes a run can enable.
Flags == { "mxcheck", "whois", "geoip", "banners", "ssdeep" }

\* The options main sets on every worker: option_extdns is MODULE_DNSPYTHON,
\* the others follow the command line.
ConfOf(extdns, on) ==
    [ extdns |-> extdns, mxcheck |-> "mxcheck" \in on, whois |-> "whois" \in on,
      geoip |-> "geoip" \in on, banners |-> "banners" \in on, ssdeep |-> "ssdeep" \in on ]

Configs ==
    { ConfOf(e, on) : e \in BOOLEAN,
                      on \in { f \in SUBSET Flags : Cardinality(f) <= MaxEnabled } }

\* The configurations of the runs with several workers or candidates: the
\* full resolver alone, getaddrinfo alone, getaddrinfo with --banners.
ConcurrentConfigs == { ConfOf(TRUE, {}), ConfOf(FALSE, {}), ConfOf(FALSE, { "banners" }) }

\* What a probe that is asked can answer; "n/a" stands for a probe the
\* configuration or an earlier answer keeps from being asked.
NsOutcomes == { "answer", "NXDOMAIN", "NoNameservers", "error" }
RecordOutcomes == { "answer", "NoNameservers", "error" }
GaiOutcomes == { "both", "v4", "v6", "again", "gaierror", "error" }
MxcheckOutcomes == { "relayed", "refused" }
WhoisOutcomes == { "ok", "partial", "error" }
GeoipOutcomes == { "country", "unknown", "nodb" }
BannerOutcomes == { "banner", "none" }
SsdeepOutcomes == { "2xx", "other", "error" }

IfAsked(asked, outcomes) == IF asked THEN outcomes ELSE { "n/a" }

\* The environments of one candidate under configuration c.
Profiles(c) ==
    { p \in { [ ns |-> n, a |-> a, aaaa |-> q, mx |-> m, gai |-> g, mxcheck |-> x,
                whois |-> wh, geoip |-> ge, bhttp |-> bh, bsmtp |-> bs, ssdeep |-> sd ] :
              n \in IfAsked(c.extdns, NsOutcomes),
              a \in IfAsked(c.extdns, RecordOutcomes) \cup { "n/a" },
              q \in IfAsked(c.extdns, RecordOutcomes) \cup { "n/a" },
              m \in IfAsked(c.extdns, RecordOutcomes) \cup { "n/a" },
              g \in IfAsked(~c.extdns, GaiOutcomes),
              x \in IfAsked(c.mxcheck, MxcheckOutcomes),
              wh \in IfAsked(c.whois, WhoisOutcomes),
              ge \in IfAsked(c.geoip, GeoipOutcomes),
              bh \in IfAsked(c.banners, BannerOutcomes),
              bs \in IfAsked(c.banners, BannerOutcomes),
              sd \in IfAsked(c.ssdeep, SsdeepOutcomes) } :
        /\ (p.a = "n/a") <=> (~c.extdns \/ p.ns = "NXDOMAIN")
        /\ (p.aaaa = "n/a") <=> (~c.extdns \/ p.ns = "NXDOMAIN")
        /\ (p.mx = "n/a") <=> (~c.extdns \/ p.ns # "answer") }

\* The environment of the runs with several workers or candidates: the
\* full resolver finds that the name does not exist, getaddrinfo returns
\* both address families, a banner is served.
BasicProfiles(c) ==
    { p \in Profiles(c) :
        /\ p.ns \in { "NXDOMAIN", "n/a" }
        /\ p.gai \in { "both", "n/a" }
        /\ p.bhttp \in { "banner", "n/a" }
        /\ p.bsmtp \in { "banner", "n/a" } }

\* Candidates of lo.com in the order main queues them: the original, a
\* homoglyph (U+0142 for l), a hyphenation and a transposition from
\* generate(), and the name DomainDict makes of the dictionary word U+00C9.
S_locom == << 108, 111, 46, 99, 111, 109 >>              \* "lo.com"

PoolCandidates ==
    << [ fuzzer |-> "Original*", domain_name |-> S_locom ],
       [ fuzzer |-> "Homoglyph", domain_name |-> << 322, 111, 46, 99, 111, 109 >> ],
       [ fuzzer |-> "Hyphenation", domain_name |-> << 108, 45, 111, 46, 99, 111, 109 >> ],
       [ fuzzer |-> "Transposition", domain_name |-> << 111, 108, 46, 99, 111, 109 >> ],
       [ fuzzer |-> "Dictionary", domain_name |-> << 108, 111, 201, 46, 99, 111, 109 >> ] >>

Unbound == [ nxdomain |-> "unbound", dns_ns |-> "unbound", dns_a |-> "unbound",
             dns_aaaa |-> "unbound", dns_mx |-> "unbound" ]

\* The generator after main has filled the queue for lo.com.
GenQueued ==
    /\ g_input = S_locom
    /\ g_pc = "queued"
    /\ dfuzz = [ subdomain |-> <<>>, domain |-> << 108, 111 >>, tld |-> S_com ]
    /\ emitted = <<>>
    /\ hashOrder = "fwd"
    /\ dictionary = NoDictionary

\* main at line 1388, the queue filled with the records and no worker
\* started, before any SIGINT.
PoolStart(records) ==
    /\ domains = records
    /\ jobs = [ i \in 1..Len(records) |-> i ]
    /\ w_pc = [ w \in Workers |-> "unborn" ]
    /\ kill_received = [ w \in Workers |-> FALSE ]
    /\ cur = [ w \in Workers |-> 0 ]
    /\ lcl = [ w \in Workers |-> Unbound ]
    /\ w_exc = [ w \in Workers |-> "" ]
    /\ m_pc = "start"
    /\ m_i = 1
    /\ threads = <<>>
    /\ qperc = 0
    /\ h_pc = "none"
    /\ h_k = 1
    /\ exit_code = -1
    /\ stdout = [ renderer |-> "none", records |-> <<>> ]
    /\ hits_total = 0
    /\ args = NoArgs
    /\ takers = [ i \in 1..Len(records) |-> {} ]
    /\ finalized = {}
    /\ probed = [ i \in 1..Len(records) |-> <<>> ]
    /\ late = FALSE
    /\ UrlDone
    /\ GenQueued

\* One worker and one candidate, under every configuration and environment.
PoolInitDetail ==
    /\ conf \in Configs
    /\ nthreads = 1
    /\ \E k \in { 1, 2, 5 } : PoolStart(<< PoolCandidates[k] >>)
    /\ net \in [ 1..1 -> Profiles(conf) ]
    /\ sigint = "off"

\* Several workers and candidates, with and without a SIGINT.  --whois
\* makes main run a single thread (line 1341).
PoolInitConcurrent ==
    /\ conf \in ConcurrentConfigs
    /\ \E n \in 1..MaxWorkers : nthreads = IF conf.whois THEN 1 ELSE n
    /\ \E J \in 1..MaxJobs :
          /\ PoolStart(SubSeq(PoolCandidates, 1, J))
          /\ net \in [ 1..J -> BasicProfiles(conf) ]
    /\ sigint \in { "off", "armed" }

\* The environment of the runs in which a worker takes a candidate after
\* another: getaddrinfo finds both address families or fails, the page is
\* served.
CarryProfiles(c) ==
    { p \in Profiles(c) : p.gai \in { "both", "gaierror" } /\ p.ssdeep = "2xx" }

\* Two workers and one candidate more than a queue of the other runs,
\* without the resolver module and with --ssdeep, so that one candidate is
\* a worker's first and another follows an earlier one on its worker.
PoolInitCarry ==
    /\ conf = ConfOf(FALSE, { "ssdeep" })
    /\ nthreads = 2
    /\ PoolStart(SubSeq(PoolCandidates, 1, MaxJobs + 1))
    /\ net \in [ 1..(MaxJobs + 1) -> CarryProfiles(conf) ]
    /\ sigint = "off"

PoolInit == PoolInitDetail \/ PoolInitConcurrent \/ PoolInitCarry

(***************************************************************************)
(* DomainThread.run, one action per statement that meets the queue, the    *)
(* kill flag or a probe.                                                   *)
(***************************************************************************)

\* domain[key] = value on a record (a Python dict).
Put(r, key, value) == (key :> value) @@ r

HasKey(r, key) == key \in DOMAIN r

\* What the probes store.
ServFail == << "!ServFail" >>
NsAnswer == << "ns.example" >>
AAnswer == << "192.0.2.1" >>
AaaaAnswer == << "2001:db8::1" >>
MxAnswer == << "mx.example" >>

\* The stages after the resolution, in the order run() tests their options.
Stages == << "mxcheck", "whois", "geoip", "bhttp", "ssdeep", "finish" >>

StageOn(st) ==
    CASE st = "mxcheck" -> conf.mxcheck
      [] st = "whois" -> conf.whois
      [] st = "geoip" -> conf.geoip
      [] st = "bhttp" -> conf.banners
      [] st = "ssdeep" -> conf.ssdeep
      [] OTHER -> TRUE

\* The first stage after position k whose option is set.
StageAfter(k) ==
    Stages[CHOOSE j \in (k + 1)..Len(Stages) :
              /\ StageOn(Stages[j])
              /\ \A m \in (k + 1)..(j - 1) : ~StageOn(Stages[m])]

\* A worker may take a step: it is running and the process has not exited.
Running(w) == m_pc # "exit" /\ w_pc[w] \notin { "unborn", "exited", "raised" }

\* An exception leaves run(): the thread ends, the record it holds stays as it is.
Raise(w, exc) ==
    /\ w_pc' = [ w_pc EXCEPT ![w] = "raised" ]
    /\ w_exc' = [ w_exc EXCEPT ![w] = exc ]

Goto(w, pc) == w_pc' = [ w_pc EXCEPT ![w] = pc ] /\ UNCHANGED w_exc

\* The probe is entered in the history of the record the worker holds.
Log(w, probe, target) ==
    probed' = [ probed EXCEPT ![cur[w]] = Append(@, [ by |-> w, probe |-> probe, target |-> target ]) ]

\* A get that would leave the item on the queue.
QueueGet_peek(q) == [ item |-> Head(q), rest |-> q ]

\* jobs.get(block=False) on a queue that holds something: [item, rest].
QueueGet(q) == [ item |-> Head(q), rest |-> Tail(q) ]

\* while not self.kill_received:
WorkerLoop(w) ==
    /\ Running(w)
    /\ w_pc[w] = "loop"
    /\ Goto(w, IF kill_received[w] THEN "exited" ELSE "get")
    /\ UNCHANGED << domains, jobs, conf, nthreads, net, sigint, kill_received, cur, lcl,
                    m_pc, m_i, threads, qperc, h_pc, h_k, exit_code, stdout, hits_total, args,
                    takers, finalized, probed, late >>
    /\ UNCHANGED notPool

\* domain = self.jobs.get(block=False) raises queue.Empty: the worker
\* sets its flag and returns.
WorkerGetEmpty(w) ==
    /\ Running(w)
    /\ w_pc[w] = "get"
    /\ jobs = <<>>
    /\ kill_received' = [ kill_received EXCEPT ![w] = TRUE ]
    /\ Goto(w, "exited")
    /\ UNCHANGED << domains, jobs, conf, nthreads, net, sigint, cur, lcl,
                    m_pc, m_i, threads, qperc, h_pc, h_k, exit_code, stdout, hits_total, args,
                    takers, finalized, probed, late >>
    /\ UNCHANGED notPool

\* domain = self.jobs.get(block=False); the name is put in its IDNA form
\* (line 972) and, with the full resolver, the five locals are reset
\* (lines 986-990).
WorkerGet(w) ==
    /\ Running(w)
    /\ w_pc[w] = "get"
    /\ jobs # <<>>
    /\ LET got == QueueGet(jobs)
           enc == IdnaEncode(domains[got.item].domain_name)
       IN  /\ jobs' = got.rest
           /\ cur' = [ cur EXCEPT ![w] = got.item ]
           /\ takers' = [ takers EXCEPT ![got.item] = @ \cup { w } ]
           /\ probed' = [ probed EXCEPT ![got.item] =
                            Append(@, [ by |-> w, probe |-> "get", target |-> "" ]) ]
           /\ IF enc.ok
              THEN /\ domains' = [ domains EXCEPT ![got.item].domain_name = enc.val ]
                   /\ Goto(w, IF conf.extdns THEN "ns" ELSE "gai")
              ELSE /\ UNCHANGED domains
                   /\ Raise(w, "UnicodeError")
    /\ lcl' = [ lcl EXCEPT ![w] = IF conf.extdns
                                  THEN [ nxdomain |-> "False", dns_ns |-> "False",
                                         dns_a |-> "False", dns_aaaa |-> "False",
                                         dns_mx |-> "False" ]
                                  ELSE @ ]
    /\ late' = (late \/ h_pc # "none")
    /\ UNCHANGED << conf, nthreads, net, sigint, kill_received,
                    m_pc, m_i, threads, qperc, h_pc, h_k, exit_code, stdout, hits_total, args,
                    finalized >>
    /\ UNCHANGED notPool

\* A query whose every failure is passed over in silence.
AfterQuery_silent(r, key, outcome, answer) ==
    IF outcome = "answer" THEN Put(r, key, answer) ELSE r

\* A query whose every failure stores the sentinel.
AfterQuery_sentinel(r, key, outcome, answer) ==
    IF outcome = "answer" THEN Put(r, key, answer) ELSE Put(r, key, ServFail)

\* The record after one DNS query of the full resolver: the answer, the
\* sentinel when all nameservers failed, nothing otherwise.
AfterQuery(r, key, outcome, answer) ==
    IF outcome = "answer" THEN Put(r, key, answer)
    ELSE IF outcome = "NoNameservers" THEN Put(r, key, ServFail)
    ELSE r

\* What the worker's step leaves alone besides its record, locals and position.
WorkerFrame ==
    /\ UNCHANGED << jobs, conf, nthreads, net, sigint, kill_received, cur,
                    m_pc, m_i, threads, qperc, h_pc, h_k, exit_code, stdout, hits_total, args,
                    takers, finalized, late >>
    /\ UNCHANGED notPool

\* An NS query after which the A query follows whatever the answer.
WorkerNs_always(w) ==
    /\ Running(w)
    /\ w_pc[w] = "ns"
    /\ domains' = [ domains EXCEPT ![cur[w]] = AfterQuery(@, "dns-ns", net[cur[w]].ns, NsAnswer) ]
    /\ lcl' = [ lcl EXCEPT ![w].dns_ns = IF net[cur[w]].ns = "answer" THEN "True" ELSE @ ]
    /\ Log(w, "NS", "name")
    /\ Goto(w, "a")
    /\ WorkerFrame

\* The NS query (lines 992-1004).
WorkerNs(w) ==
    /\ Running(w)
    /\ w_pc[w] = "ns"
    /\ domains' = [ domains EXCEPT ![cur[w]] = AfterQuery(@, "dns-ns", net[cur[w]].ns, NsAnswer) ]
    /\ lcl' = [ lcl EXCEPT ![w].dns_ns = IF net[cur[w]].ns = "answer" THEN "True" ELSE @,
                           ![w].nxdomain = IF net[cur[w]].ns = "NXDOMAIN" THEN "True" ELSE @ ]
    /\ Log(w, "NS", "name")
    /\ Goto(w, IF net[cur[w]].ns = "NXDOMAIN" THEN StageAfter(0) ELSE "a")
    /\ WorkerFrame

\* The A query (lines 1006-1016).
WorkerA(w) ==
    /\ Running(w)
    /\ w_pc[w] = "a"
    /\ domains' = [ domains EXCEPT ![cur[w]] = AfterQuery(@, "dns-a", net[cur[w]].a, AAnswer) ]
    /\ lcl' = [ lcl EXCEPT ![w].dns_a = IF net[cur[w]].a = "answer" THEN "True" ELSE @ ]
    /\ Log(w, "A", "name")
    /\ Goto(w, "aaaa")
    /\ WorkerFrame

\* The AAAA query (lines 1018-1029) and the test of line 1031.
WorkerAaaa(w) ==
    /\ Running(w)
    /\ w_pc[w] = "aaaa"
    /\ domains' = [ domains EXCEPT ![cur[w]] =
                      AfterQuery(@, "dns-aaaa", net[cur[w]].aaaa, AaaaAnswer) ]
    /\ lcl' = [ lcl EXCEPT ![w].dns_aaaa = IF net[cur[w]].aaaa = "answer" THEN "True" ELSE @ ]
    /\ Log(w, "AAAA", "name")
    /\ Goto(w, IF lcl[w].nxdomain = "False" /\ lcl[w].dns_ns = "True"
               THEN "mx" ELSE StageAfter(0))
    /\ WorkerFrame

\* The MX query (lines 1031-1041).
WorkerMx(w) ==
    /\ Running(w)
    /\ w_pc[w] = "mx"
    /\ domains' = [ domains EXCEPT ![cur[w]] = AfterQuery(@, "dns-mx", net[cur[w]].mx, MxAnswer) ]
    /\ lcl' = [ lcl EXCEPT ![w].dns_mx = IF net[cur[w]].mx = "answer" THEN "True" ELSE @ ]
    /\ Log(w, "MX", "name")
    /\ Goto(w, StageAfter(0))
    /\ WorkerFrame

\* The record after socket.getaddrinfo (lines 1043-1060).
AfterGai(r, outcome) ==
    IF outcome = "again" THEN Put(r, "dns-a", ServFail)
    ELSE IF outcome = "both" THEN Put(Put(r, "dns-a", AAnswer), "dns-aaaa", AaaaAnswer)
    ELSE IF outcome = "v4" THEN Put(Put(r, "dns-a", AAnswer), "dns-aaaa", <<>>)
    ELSE IF outcome = "v6" THEN Put(Put(r, "dns-a", <<>>), "dns-aaaa", AaaaAnswer)
    ELSE r

\* Resolution without the resolver module (lines 1043-1062): only a
\* successful call binds dns_a and dns_aaaa.
WorkerGai(w) ==
    /\ Running(w)
    /\ w_pc[w] = "gai"
    /\ domains' = [ domains EXCEPT ![cur[w]] = AfterGai(@, net[cur[w]].gai) ]
    /\ lcl' = [ lcl EXCEPT ![w].dns_a = IF net[cur[w]].gai \in { "both", "v4", "v6" }
                                        THEN "True" ELSE @,
                           ![w].dns_aaaa = IF net[cur[w]].gai \in { "both", "v4", "v6" }
                                           THEN "True" ELSE @ ]
    /\ Log(w, "getaddrinfo", "name")
    /\ Goto(w, StageAfter(0))
    /\ WorkerFrame

\* domain[key][0] as a probe's target: the exception it raises when the key
\* is missing or the list is empty, the first element otherwise.
Target(r, key) ==
    IF ~HasKey(r, key) THEN "KeyError"
    ELSE IF Len(r[key]) = 0 THEN "IndexError"
    ELSE r[key][1]

\* The target is a host a connection can reach.
IsHost(target) == target \notin { "KeyError", "IndexError", "!ServFail" }

\* "a is not b" for a string a that bytes.decode() built at line 972: a new
\* object, never the object b, whatever the two strings hold.
IsNotObject(a, b) == TRUE

\* self.domain_orig: url.domain.
domain_orig == S_locom

\* What a probe's step leaves alone besides its record and position.
ProbeFrame == UNCHANGED lcl /\ WorkerFrame

\* The probe was not run: the record and its history stay.
Skip(w, pc) == Goto(w, pc) /\ UNCHANGED << domains, probed >>

\* A read of an unbound local ends run().
Escape(w, exc) == Raise(w, exc) /\ UNCHANGED << domains, probed >>

\* if self.option_mxcheck: (lines 1064-1070)
WorkerMxcheck(w) ==
    /\ Running(w)
    /\ w_pc[w] = "mxcheck"
    /\ IF lcl[w].dns_mx = "unbound" THEN Escape(w, "UnboundLocalError")
       ELSE IF lcl[w].dns_mx = "True"
               /\ IsNotObject(domains[cur[w]].domain_name, domain_orig)
       THEN /\ domains' = [ domains EXCEPT ![cur[w]] =
                              IF net[cur[w]].mxcheck = "relayed"
                              THEN Put(@, "mx-spy", TRUE) ELSE @ ]
            /\ Log(w, "mxcheck", Target(domains[cur[w]], "dns-mx"))
            /\ Goto(w, StageAfter(1))
       ELSE Skip(w, StageAfter(1))
    /\ ProbeFrame

\* The record after whois.query (lines 1074-1083).
AfterWhois(r, outcome) ==
    IF outcome = "ok" THEN Put(Put(r, "whois-created", "2001-01-01"), "whois-updated", "2002-02-02")
    ELSE IF outcome = "partial" THEN Put(r, "whois-created", "2001-01-01")
    ELSE r

\* if self.option_whois: (lines 1072-1083)
WorkerWhois(w) ==
    /\ Running(w)
    /\ w_pc[w] = "whois"
    /\ IF lcl[w].nxdomain = "unbound" THEN Escape(w, "UnboundLocalError")
       ELSE IF lcl[w].nxdomain = "False" /\ lcl[w].dns_ns = "True"
       THEN /\ domains' = [ domains EXCEPT ![cur[w]] = AfterWhois(@, net[cur[w]].whois) ]
            /\ Log(w, "whois", "name")
            /\ Goto(w, StageAfter(2))
       ELSE Skip(w, StageAfter(2))
    /\ ProbeFrame

\* if self.option_geoip: (lines 1085-1094); GeoIP.new stands outside the try.
WorkerGeoip(w) ==
    /\ Running(w)
    /\ w_pc[w] = "geoip"
    /\ IF lcl[w].dns_a = "unbound" THEN Escape(w, "UnboundLocalError")
       ELSE IF lcl[w].dns_a = "True"
       THEN IF net[cur[w]].geoip = "nodb" THEN Escape(w, "GeoIPError")
            ELSE /\ domains' = [ domains EXCEPT ![cur[w]] =
                                   IF net[cur[w]].geoip = "country"
                                      /\ IsHost(Target(@, "dns-a"))
                                   THEN Put(@, "geoip-country", "Utopia") ELSE @ ]
                 /\ Log(w, "geoip", Target(domains[cur[w]], "dns-a"))
                 /\ Goto(w, StageAfter(3))
       ELSE Skip(w, StageAfter(3))
    /\ ProbeFrame

\* if self.option_banners: the HTTP banner (lines 1096-1102);
\* domain["dns-a"][0] is evaluated outside any try.
WorkerBannerHttp(w) ==
    /\ Running(w)
    /\ w_pc[w] = "bhttp"
    /\ IF lcl[w].dns_a = "unbound" THEN Escape(w, "UnboundLocalError")
       ELSE IF lcl[w].dns_a = "True" \/ lcl[w].dns_aaaa = "True"
       THEN IF ~IsHost(Target(domains[cur[w]], "dns-a"))
               /\ Target(domains[cur[w]], "dns-a") # "!ServFail"
            THEN Escape(w, Target(domains[cur[w]], "dns-a"))
            ELSE /\ domains' = [ domains EXCEPT ![cur[w]] =
                                   IF net[cur[w]].bhttp = "banner"
                                      /\ IsHost(Target(@, "dns-a"))
                                   THEN Put(@, "banner-http", "nginx") ELSE @ ]
                 /\ Log(w, "banner-http", Target(domains[cur[w]], "dns-a"))
                 /\ Goto(w, "bsmtp")
       ELSE Skip(w, "bsmtp")
    /\ ProbeFrame

\* The SMTP banner (lines 1103-1106).
WorkerBannerSmtp(w) ==
    /\ Running(w)
    /\ w_pc[w] = "bsmtp"
    /\ IF lcl[w].dns_mx = "unbound" THEN Escape(w, "UnboundLocalError")
       ELSE IF lcl[w].dns_mx = "True"
       THEN /\ domains' = [ domains EXCEPT ![cur[w]] =
                              IF net[cur[w]].bsmtp = "banner"
                              THEN Put(@, "banner-smtp", "ESMTP") ELSE @ ]
            /\ Log(w, "banner-smtp", Target(domains[cur[w]], "dns-mx"))
            /\ Goto(w, StageAfter(4))
       ELSE Skip(w, StageAfter(4))
    /\ ProbeFrame

\* if self.option_ssdeep: (lines 1108-1129)
WorkerSsdeep(w) ==
    /\ Running(w)
    /\ w_pc[w] = "ssdeep"
    /\ IF lcl[w].dns_a = "unbound" THEN Escape(w, "UnboundLocalError")
       ELSE IF lcl[w].dns_a = "True" \/ lcl[w].dns_aaaa = "True"
       THEN /\ domains' = [ domains EXCEPT ![cur[w]] =
                              IF net[cur[w]].ssdeep = "2xx"
                              THEN Put(@, "ssdeep-score", 50) ELSE @ ]
            /\ Log(w, "ssdeep", "name")
            /\ Goto(w, "finish")
       ELSE Skip(w, "finish")
    /\ ProbeFrame

\* The name is put back in Unicode (line 1131) and self.jobs.task_done().
WorkerFinish(w) ==
    /\ Running(w)
    /\ w_pc[w] = "finish"
    /\ IF IdnaDecode(domains[cur[w]].domain_name).ok
       THEN /\ domains' = [ domains EXCEPT ![cur[w]].domain_name = IdnaDecode(@).val ]
            /\ finalized' = finalized \cup { cur[w] }
            /\ Log(w, "task_done", "")
            /\ cur' = [ cur EXCEPT ![w] = 0 ]
            /\ Goto(w, "loop")
       ELSE /\ Escape(w, "UnicodeError")
            /\ UNCHANGED << finalized, cur >>
    /\ UNCHANGED << jobs, conf, nthreads, net, sigint, kill_received, lcl,
                    m_pc, m_i, threads, qperc, h_pc, h_k, exit_code, stdout, hits_total, args,
                    takers, late >>
    /\ UNCHANGED notPool

(***************************************************************************)
(* main from line 1388 on, and sigint_handler.                             *)
(***************************************************************************)

\* The main thread may take a step: it is not inside the signal handler.
MainAt(pc) == m_pc = pc /\ h_pc = "none"

MainFrame ==
    /\ UNCHANGED << conf, nthreads, net, sigint, cur, lcl, w_exc, h_pc, h_k,
                    takers, finalized, probed, late >>
    /\ UNCHANGED notPool

Terminated(w) == w_pc[w] \in { "exited", "raised" }

\* worker = DomainThread(jobs); ...; worker.start()  (lines 1389-1417)
MainStart ==
    /\ MainAt("start")
    /\ w_pc' = [ w_pc EXCEPT ![m_i] = "loop" ]
    /\ m_pc' = "append"
    /\ UNCHANGED << domains, jobs, kill_received, m_i, threads, qperc, exit_code, stdout,
                    hits_total, args >>
    /\ MainFrame

\* threads.append(worker)  (line 1418)
MainAppend ==
    /\ MainAt("append")
    /\ threads' = Append(threads, m_i)
    /\ m_i' = m_i + 1
    /\ m_pc' = IF m_i + 1 > nthreads THEN "poll" ELSE "start"
    /\ UNCHANGED << domains, jobs, w_pc, kill_received, qperc, exit_code, stdout, hits_total, args >>
    /\ MainFrame

\* while not jobs.empty(): the progress is reported when it has grown by
\* 15 points (lines 1421-1427); qperc is kept times len(domains).
MainPollBusy ==
    /\ MainAt("poll")
    /\ jobs # <<>>
    /\ qperc' = IF 100 * (Len(domains) - Len(jobs)) - 15 * Len(domains) >= qperc
                THEN 100 * (Len(domains) - Len(jobs)) ELSE qperc
    /\ UNCHANGED << domains, jobs, w_pc, kill_received, m_pc, m_i, threads, exit_code, stdout,
                    hits_total, args >>
    /\ MainFrame

\* jobs.empty(): main leaves the loop.
MainPollDone ==
    /\ MainAt("poll")
    /\ jobs = <<>>
    /\ m_pc' = "stop"
    /\ m_i' = 1
    /\ UNCHANGED << domains, jobs, w_pc, kill_received, threads, qperc, exit_code, stdout,
                    hits_total, args >>
    /\ MainFrame

\* worker.stop()  (line 1430)
MainStop ==
    /\ MainAt("stop")
    /\ kill_received' = [ kill_received EXCEPT ![threads[m_i]] = TRUE ]
    /\ m_pc' = "join"
    /\ UNCHANGED << domains, jobs, w_pc, m_i, threads, qperc, exit_code, stdout, hits_total, args >>
    /\ MainFrame

\* worker.join() returns when the worker's run() has ended  (line 1431)
MainJoin ==
    /\ MainAt("join")
    /\ Terminated(threads[m_i])
    /\ m_i' = m_i + 1
    /\ m_pc' = IF m_i + 1 > Len(threads) THEN "render" ELSE "stop"
    /\ UNCHANGED << domains, jobs, w_pc, kill_received, threads, qperc, exit_code, stdout,
                    hits_total, args >>
    /\ MainFrame

\* str.lower on a fuzzer tag.
LowerTag(t) ==
    CASE t = "Original*" -> "original*"
      [] t = "Homoglyph" -> "homoglyph"
      [] t = "Hyphenation" -> "hyphenation"
      [] t = "Transposition" -> "transposition"
      [] t = "Dictionary" -> "dictionary"
      [] OTHER -> t

\* generate_json rewrites name and tag of the records it is given.
JsonRecords(list) ==
    [ i \in 1..Len(list) |->
        [ list[i] EXCEPT !.domain_name = IdnaEncode(LowerStr(@)).val,
                         !.fuzzer = LowerTag(@) ] ]

\* sum("dns-ns" in d or "dns-a" in d for d in domains)
HitsTotal(list) ==
    Cardinality({ i \in 1..Len(list) : HasKey(list[i], "dns-ns") \/ HasKey(list[i], "dns-a") })

\* [d for d in domains if len(d) > 2]
Registered(list) == SelectSeq(list, LAMBDA d : Cardinality(DOMAIN d) > 2)

\* What reaches standard output for the list and --format (lines
\* 1440-1446): "format" at line 1441 is the builtin, never equal to "csv",
\* and p_json, p_cli write only under their own format.
Rendered(list, fmt) ==
    IF Len(list) = 0 THEN [ renderer |-> "none", records |-> <<>> ]
    ELSE IF fmt = "json" THEN [ renderer |-> "json", records |-> JsonRecords(list) ]
    ELSE IF fmt = "cli" THEN [ renderer |-> "cli", records |-> list ]
    ELSE [ renderer |-> "none", records |-> <<>> ]

\* The hit count, --registered, the rendering and bye(0)  (lines 1433-1448)
MainRender ==
    /\ MainAt("render")
    /\ hits_total' = HitsTotal(domains)
    /\ \E registered \in BOOLEAN, fmt \in { "cli", "csv", "json" } :
          /\ args' = [ registered |-> registered, format |-> fmt ]
          /\ domains' = IF registered THEN Registered(domains) ELSE domains
          /\ stdout' = Rendered(IF registered THEN Registered(domains) ELSE domains, fmt)
    /\ exit_code' = 0
    /\ m_pc' = "exit"
    /\ UNCHANGED << jobs, w_pc, kill_received, m_i, threads, qperc >>
    /\ MainFrame

HandlerFrame ==
    /\ UNCHANGED << domains, jobs, conf, nthreads, net, w_pc, cur, lcl, w_exc, m_i, threads,
                    qperc, stdout, hits_total, args, takers, finalized, probed, late >>
    /\ UNCHANGED notPool

\* SIGINT reaches the process: the main thread enters sigint_handler
\* wherever it stands.
Sigint ==
    /\ sigint = "armed"
    /\ m_pc \in { "start", "append", "poll", "stop", "join", "render" }
    /\ sigint' = "raised"
    /\ h_pc' = IF Len(threads) = 0 THEN "bye" ELSE "stop"
    /\ h_k' = 1
    /\ UNCHANGED << kill_received, m_pc, exit_code >>
    /\ HandlerFrame

\* worker.stop() in the handler (line 207)
HandlerStop ==
    /\ h_pc = "stop"
    /\ kill_received' = [ kill_received EXCEPT ![threads[h_k]] = TRUE ]
    /\ h_pc' = "join"
    /\ UNCHANGED << sigint, h_k, m_pc, exit_code >>
    /\ HandlerFrame

\* worker.join() in the handler (line 208)
HandlerJoin ==
    /\ h_pc = "join"
    /\ Terminated(threads[h_k])
    /\ h_k' = h_k + 1
    /\ h_pc' = IF h_k + 1 > Len(threads) THEN "bye" ELSE "stop"
    /\ UNCHANGED << sigint, kill_received, m_pc, exit_code >>
    /\ HandlerFrame

\* bye(0): the process exits, its daemon threads with it (lines 209-210)
HandlerBye ==
    /\ h_pc = "bye"
    /\ h_pc' = "done"
    /\ m_pc' = "exit"
    /\ exit_code' = 0
    /\ UNCHANGED << sigint, kill_received, h_k >>
    /\ HandlerFrame

PoolNext ==
    \/ \E w \in Workers : WorkerLoop(w)
    \/ \E w \in Workers : WorkerGetEmpty(w)
    \/ \E w \in Workers : WorkerGet(w)
    \/ \E w \in Workers : WorkerNs(w)
    \/ \E w \in Workers : WorkerA(w)
    \/ \E w \in Workers : WorkerAaaa(w)
    \/ \E w \in Workers : WorkerMx(w)
    \/ \E w \in Workers : WorkerGai(w)
    \/ \E w \in Workers : WorkerMxcheck(w)
    \/ \E w \in Workers : WorkerWhois(w)
    \/ \E w \in Workers : WorkerGeoip(w)
    \/ \E w \in Workers : WorkerBannerHttp(w)
    \/ \E w \in Workers : WorkerBannerSmtp(w)
    \/ \E w \in Workers : WorkerSsdeep(w)
    \/ \E w \in Workers : WorkerFinish(w)
    \/ MainStart
    \/ MainAppend
    \/ MainPollBusy
    \/ MainPollDone
    \/ MainStop
    \/ MainJoin
    \/ MainRender
    \/ Sigint
    \/ HandlerStop
    \/ HandlerJoin
    \/ HandlerBye

SpecPool == PoolInit /\ [][PoolNext]_vars

(***************************************************************************)
(* Claims about the URL parser, checked under SpecUrl.                     *)
(***************************************************************************)

S_https == << 104, 116, 116, 112, 115 >>                \* "https"

\* The syntactic form the specification gives for a parsed domain: at most
\* 253 characters, every label 1..63 letters, digits or hyphens, and a last
\* label of at least 2 letters.
SyntacticForm(d) ==
    LET labels == Split(d, Ch.dot)
        n == Len(labels)
    IN  /\ Len(d) <= 253
        /\ \A i \in 1..n :
              /\ Len(labels[i]) \in 1..63
              /\ \A k \in 1..Len(labels[i]) :
                    IsAsciiAlpha(labels[i][k]) \/ IsDigit(labels[i][k]) \/ labels[i][k] = Ch.hyphen
        /\ Len(labels[n]) >= 2
        /\ \A k \in 1..Len(labels[n]) : IsAsciiAlpha(labels[n][k])

\* C9: for every input, UrlParser either raises ValueError or returns with a
\* domain that is non-empty, lowercase, without a port and of the syntactic
\* form; it never leaves with another exception.
C9_ParserRejectsOrConforms ==
    /\ u_pc = "raised" => u_exc = "ValueError"
    /\ u_pc = "parsed" =>
          /\ Len(url.domain) > 0
          /\ url.domain = LowerStr(url.domain)
          /\ ~HasChar(url.domain, Ch.colon)
          /\ SyntacticForm(url.domain)

\* The scheme the input itself carries: the text before its first "://".
InputScheme(input) ==
    IF ~Contains(input, S_schemeSep) THEN <<>>
    ELSE LET at == CHOOSE k \in 0..Len(input) :
                      /\ StartsWithAt(input, S_schemeSep, k)
                      /\ \A j \in 0..(k - 1) : ~StartsWithAt(input, S_schemeSep, j)
         IN  Slice(input, 0, at)

\* C10: after a parse that yields a valid (non-empty) domain the scheme is
\* the input's scheme when that is "http" or "https" and "http" otherwise,
\* and get_full_uri() returns scheme + "://" + domain + path + query.
C10_SchemeHttpOrHttps ==
    (u_pc = "parsed" /\ Len(url.domain) > 0) =>
        /\ url.scheme = IF InputScheme(u_input) \in { S_http, S_https }
                        THEN InputScheme(u_input) ELSE S_http
        /\ full_uri.called =>
              full_uri.value = url.scheme \o S_schemeSep \o url.domain \o url.path \o url.query

(***************************************************************************)
(* Claims about the generator and main's candidate assembly, checked       *)
(* under SpecFuzz.                                                         *)
(***************************************************************************)

\* generate() has returned and main has not yet added to the list.
Generated == g_pc = "dictionary"

\* The syntactic form of a candidate name: 4..253 characters, labels of
\* 1..63 letters, digits or hyphens that neither start nor end with a
\* hyphen, and an alphabetic last label of 2..63.
LdhForm(d) ==
    LET labels == Split(d, Ch.dot)
        n == Len(labels)
    IN  /\ Len(d) \in 4..253
        /\ n >= 2
        /\ \A i \in 1..n :
              /\ Len(labels[i]) \in 1..63
              /\ labels[i][1] # Ch.hyphen
              /\ labels[i][Len(labels[i])] # Ch.hyphen
              /\ \A k \in 1..Len(labels[i]) :
                    IsAsciiAlpha(labels[i][k]) \/ IsDigit(labels[i][k]) \/ labels[i][k] = Ch.hyphen
        /\ Len(labels[n]) >= 2
        /\ \A k \in 1..Len(labels[n]) : IsAsciiAlpha(labels[n][k])

\* The list holds exactly one Original* record, at its head, naming the input.
OriginalAtHead ==
    /\ Len(domains) >= 1
    /\ domains[1] = [ fuzzer |-> "Original*", domain_name |-> g_input ]
    /\ \A i \in 2..Len(domains) : domains[i].fuzzer # "Original*"

\* C5 as stated: for every registrable of length >= 2, the list generate()
\* leaves holds exactly one Original* record, at index 0, naming the input.
C5_OriginalFirst_AsStated ==
    (Generated /\ Len(dfuzz.domain) >= 2) => OriginalAtHead

\* C5: for every registrable of length >= 2 whose assembled input domain has
\* the syntactic form of a candidate name, the list generate() leaves holds
\* exactly one Original* record, at index 0, naming the input domain.
C5_OriginalFirst ==
    (Generated /\ Len(dfuzz.domain) >= 2 /\ LdhForm(g_input)) => OriginalAtHead

\* A valid input below a subdomain whose Original* record heads the list.
C5_Witness ==
    /\ Generated
    /\ Len(dfuzz.domain) >= 2
    /\ Len(dfuzz.subdomain) > 0
    /\ LdhForm(g_input)
    /\ OriginalAtHead
    /\ Len(domains) > 1

\* The index in emitted of the first record that carries the name.
FirstEmitted(name) ==
    CHOOSE i \in 1..Len(emitted) :
        /\ emitted[i].domain_name = name
        /\ \A j \in 1..(i - 1) : emitted[j].domain_name # name

\* C6: in the list generate() leaves every name, in its IDNA form, has the
\* syntactic form of a candidate name, no two records carry the same name,
\* each record is the first one emitted with its name, and the records
\* stand in emission order.
C6_FilteredValidUniqueOrdered ==
    Generated =>
        LET n == Len(domains)
            name(k) == domains[k].domain_name
        IN  /\ \A k \in 1..n :
                  LET e == IdnaEncode(name(k)) IN e.ok /\ LdhForm(e.val)
            /\ Cardinality({ name(k) : k \in 1..n }) = n
            /\ Cardinality({ IdnaEncode(name(k)).val : k \in 1..n }) = n
            /\ \A k \in 1..n : emitted[FirstEmitted(name(k))] = domains[k]
            /\ \A k \in 1..(n - 1) : FirstEmitted(name(k)) < FirstEmitted(name(k + 1))

\* The filter has dropped an invalid name and a repeated name and has kept
\* a name that is not ASCII.
C6_Witness ==
    /\ Generated
    /\ \E i \in 1..Len(emitted) : ~ValidateDomain(emitted[i].domain_name)
    /\ \E i \in 1..Len(emitted) : \E j \in (i + 1)..Len(emitted) :
          /\ emitted[i].domain_name = emitted[j].domain_name
          /\ emitted[i].fuzzer # emitted[j].fuzzer
          /\ ValidateDomain(emitted[i].domain_name)
    /\ \E k \in 1..Len(domains) : ~IsAscii(domains[k].domain_name)
    /\ Len(domains) < Len(emitted)

\* C7: the records main puts on the job queue carry pairwise different
\* names, each of the syntactic form, whatever word list and TLD list the
\* Dictionary and TLD-swap expanders were given.
C7_QueueDedupValidated ==
    g_pc = "queued" =>
        /\ Cardinality({ domains[jobs[a]].domain_name : a \in 1..Len(jobs) }) = Len(jobs)
        /\ \A a \in 1..Len(jobs) :
              LET e == IdnaEncode(domains[jobs[a]].domain_name)
              IN  e.ok /\ LdhForm(e.val)

\* C8: for an input with a subdomain S, every name in the list generate()
\* leaves starts with S and a dot, whatever its fuzzer tag.
C8_SubdomainKept ==
    (Generated /\ Len(dfuzz.subdomain) > 0) =>
        \A k \in 1..Len(domains) :
            StartsWith(domains[k].domain_name, dfuzz.subdomain \o << Ch.dot >>)

(***************************************************************************)
(* Claims about the worker pool, main's wait for it and the signal         *)
(* handler, checked under SpecPool.                                        *)
(***************************************************************************)

\* The records main has put on the queue, by their index in the list.
Enqueued == 1..Len(takers)

\* The events of record i that are dequeues.
Dequeues(i) == { k \in 1..Len(probed[i]) : probed[i][k].probe = "get" }

\* C1: for any number of workers and any queue, a record is on the queue
\* or has been dequeued by exactly one worker, never both and never by two;
\* it is dequeued at most once; every read or write of a record, from its
\* dequeue to its task_done, is by the worker that dequeued it, and a worker
\* holds only a record it dequeued; when main leaves its wait every record
\* has been dequeued by exactly one worker.
C1_OneOwnerPerRecord ==
    /\ \A i \in Enqueued :
          /\ Cardinality(takers[i]) <= 1
          /\ Cardinality(Dequeues(i)) <= 1
          /\ (takers[i] = {}) <=> (\E k \in 1..Len(jobs) : jobs[k] = i)
          /\ \A k \in 1..Len(probed[i]) : probed[i][k].by \in takers[i]
    /\ \A w \in Workers : cur[w] # 0 => takers[cur[w]] = { w }
    /\ m_pc \in { "stop", "join", "render" } =>
          \A i \in Enqueued : Cardinality(takers[i]) = 1

\* Two workers have each dequeued, probed and finalized a record of their own.
C1_Witness ==
    \E i, j \in Enqueued :
        /\ i # j
        /\ takers[i] = { 1 } /\ takers[j] = { 2 }
        /\ { i, j } \subseteq finalized
        /\ Len(probed[i]) > 2 /\ Len(probed[j]) > 2

\* C2: for every dequeued candidate and every combination of enabled probes
\* and probe outcomes, the worker reaches task_done and returns to the top
\* of its loop: run() never raises, and a worker stops only on an empty
\* queue or a set kill flag.
C2_RunNeverRaises ==
    \A w \in Workers :
        /\ w_pc[w] # "raised"
        /\ w_pc[w] = "exited" => kill_received[w]

\* C3: with no SIGINT, at the moment rendering starts the queue is empty,
\* every worker has exited and every enqueued candidate has been finalized
\* by some worker.
C3_RenderAfterAllFinalized ==
    (m_pc = "render" /\ sigint # "raised") =>
        /\ jobs = <<>>
        /\ \A w \in Workers : w_pc[w] # "unborn" => w_pc[w] = "exited"
        /\ \A i \in Enqueued : i \in finalized

\* C4: from the moment the signal handler starts no worker dequeues a
\* further candidate, and when the handler lets the process exit with code
\* 0 it has joined every worker that was started.
C4_SigintStopsDequeue ==
    /\ ~late
    /\ h_pc = "done" =>
          /\ exit_code = 0
          /\ \A w \in Workers : w_pc[w] # "unborn" => Terminated(w)

\* The step in which main counts the hits, filters and renders.
RenderStep == m_pc = "render" /\ h_pc = "none" /\ m_pc' = "exit"

DnsFields == { "dns-ns", "dns-a", "dns-aaaa", "dns-mx" }

EnrichmentFields ==
    { "mx-spy", "whois-created", "whois-updated", "geoip-country",
      "banner-http", "banner-smtp", "ssdeep-score" }

\* The record carries a DNS field holding a real answer, or an enrichment field.
ResolvedOrEnriched(d) ==
    \/ \E k \in DnsFields \cap DOMAIN d : d[k] # <<>> /\ d[k] # << "!ServFail" >>
    \/ EnrichmentFields \cap DOMAIN d # {}

\* The records of list at the indices that satisfy Keep, in their order.
Kept(list, Keep(_)) ==
    LET idx == SelectSeq([ i \in 1..Len(list) |-> i ], Keep)
    IN  [ k \in 1..Len(idx) |-> list[idx[k]] ]

\* C11: with --registered the list main renders is exactly the finalized
\* records that carry a DNS field holding a real answer or an enrichment
\* field; a record whose only additional fields are the "!ServFail"
\* sentinel is not kept.
C11_RegisteredKeepsResolved ==
    [][ (RenderStep /\ args'.registered) =>
            domains' = Kept(domains, LAMBDA i : i \in finalized /\ ResolvedOrEnriched(domains[i]))
      ]_vars

\* main has rendered and left through bye(0) at line 1448.
RenderedAndLeft == m_pc = "exit" /\ h_pc = "none"

\* C12: when the final list is non-empty, exactly the renderer of the
\* chosen format (cli, csv or json) writes to standard output, one entry
\* per record of the list; in particular csv output is written under csv.
C12_ChosenRendererWrites ==
    (RenderedAndLeft /\ Len(domains) > 0) =>
        /\ stdout.renderer = args.format
        /\ Len(stdout.records) = Len(domains)

\* The probes run on record i so far, by name.
ProbesOf(i) == { probed[i][k].probe : k \in 1..Len(probed[i]) }

\* The NS query of record i returns NXDOMAIN under the full resolver.
Nxdomain(i) == conf.extdns /\ net[i].ns = "NXDOMAIN"

\* C13: with the full resolver, a candidate whose NS query returns NXDOMAIN
\* goes straight to finalized: beyond the dequeue, the NS query and
\* task_done nothing is run on it whatever flags are enabled, its record
\* never has a key other than fuzzer and domain-name, and when every
\* candidate of the queue is such a one --registered leaves an empty list
\* and nothing is rendered.
C13_NxdomainStraightToFinalized ==
    /\ \A i \in Enqueued :
          Nxdomain(i) =>
              /\ ProbesOf(i) \subseteq { "get", "NS", "task_done" }
              /\ m_pc # "exit" => DOMAIN domains[i] = { "fuzzer", "domain_name" }
    /\ (RenderedAndLeft /\ args.registered /\ \A i \in Enqueued : Nxdomain(i)) =>
          domains = <<>> /\ stdout.renderer = "none"

\* Two workers have finalized NXDOMAIN candidates of one queue and
\* --registered has left nothing to render.
C13_Witness ==
    /\ RenderedAndLeft /\ args.registered
    /\ Len(takers) >= 2
    /\ \A i \in Enqueued : Nxdomain(i) /\ i \in finalized /\ "NS" \in ProbesOf(i)
    /\ \E i, j \in Enqueued : takers[i] # takers[j]
    /\ domains = <<>>

(***************************************************************************)
(* Claims about single strategies, checked under SpecFuzz on the records   *)
(* generate() has appended for the strategy.                               *)
(***************************************************************************)

\* The string a strategy returned, taken back out of a record's name:
\* the name without the subdomain and the TLD generate() put around it.
RegistrableOf(name) ==
    Slice(name, IF Len(dfuzz.subdomain) = 0 THEN 0 ELSE Len(dfuzz.subdomain) + 1,
                Len(name) - Len(dfuzz.tld) - 1)

\* The strings the strategy with this tag returned, as generate() recorded them.
Returned(tag) ==
    { RegistrableOf(domains[i].domain_name) :
        i \in { k \in 1..Len(domains) : domains[k].fuzzer = tag } }

\* Bit k of a character code.
Bit(c, k) == (c \div (2 ^ k)) % 2

\* The two codes differ in exactly one of their eight low bits.
OneBitApart(a, b) == Cardinality({ k \in 0..7 : Bit(a, k) # Bit(b, k) }) = 1

\* [0-9a-z-]
BitsquatCharset == (48..57) \cup (97..122) \cup { 45 }

\* s with the character at position i (from 1) replaced by c.
WithCharAt(s, i, c) == [ s EXCEPT ![i] = c ]

\* C14: every string Bitsquatting returns has the length of the registrable
\* and differs from it in exactly one position, where the XOR of the two
\* codes is one of 1, 2, 4, ..., 128 and the new character is in [0-9a-z-];
\* conversely every single-bit flip of a character that lands in [0-9a-z-]
\* is returned.
C14_BitsquattingOneBit ==
    g_pc = "Homoglyph" =>
        /\ \A s \in Returned("Bitsquatting") :
              /\ Len(s) = Len(dfuzz.domain)
              /\ \E i \in 1..Len(s) :
                    /\ \A k \in 1..Len(s) : (s[k] # dfuzz.domain[k]) <=> (k = i)
                    /\ Xor(s[i], dfuzz.domain[i]) \in { 1, 2, 4, 8, 16, 32, 64, 128 }
                    /\ s[i] \in BitsquatCharset
        /\ \A i \in 1..Len(dfuzz.domain), c \in BitsquatCharset :
              OneBitApart(c, dfuzz.domain[i]) =>
                  WithCharAt(dfuzz.domain, i, c) \in Returned("Bitsquatting")

\* Bitsquatting has returned the flip of bit 6 of a hyphen, "m", among the
\* flips of a registrable of three characters.
C14_Witness ==
    /\ g_pc = "Homoglyph"
    /\ Len(dfuzz.domain) = 3
    /\ \E s \in Returned("Bitsquatting"), i \in 1..3 : s[i] = 109 /\ dfuzz.domain[i] = 45
    /\ Cardinality(Returned("Bitsquatting")) > 3

\* s with the characters at positions i and i + 1 (from 1) exchanged.
SwapAt(s, i) == [ s EXCEPT ![i] = s[i + 1], ![i + 1] = s[i] ]

\* C15: Transposition returns, for each index i whose character differs
\* from the next, the string with the two exchanged, and nothing else; no
\* result equals the input, and exchanging the same pair again in a result
\* gives the input back, which the strategy itself returns for the result.
C15_TranspositionInvolution ==
    g_pc = "VowelSwap" =>
        LET d == dfuzz.domain
            visited == { i \in 1..(Len(d) - 1) : d[i] # d[i + 1] }
        IN  /\ Returned("Transposition") = { SwapAt(d, i) : i \in visited }
            /\ d \notin Returned("Transposition")
            /\ \A i \in visited :
                  /\ SwapAt(SwapAt(d, i), i) = d
                  /\ d \in Range(Transposition(SwapAt(d, i)))

\* Transposition has returned one string for a registrable of three
\* characters in which one pair of neighbours is equal and one is not.
C15_Witness ==
    /\ g_pc = "VowelSwap"
    /\ Len(dfuzz.domain) = 3
    /\ dfuzz.domain[1] = dfuzz.domain[2] /\ dfuzz.domain[2] # dfuzz.domain[3]
    /\ Returned("Transposition") = { SwapAt(dfuzz.domain, 2) }

\* s without the character at position i (from 1).
WithoutCharAt(s, i) == [ k \in 1..(Len(s) - 1) |-> IF k < i THEN s[k] ELSE s[k + 1] ]

\* s with every run of a repeated character replaced by one occurrence:
\* the characters that differ from their left neighbour.
RunsCollapsed(s) ==
    LET first == SelectSeq([ i \in 1..Len(s) |-> i ], LAMBDA i : i = 1 \/ s[i] # s[i - 1])
    IN  [ k \in 1..Len(first) |-> s[first[k]] ]

\* C16: the result of Omission contains the collapsed-runs form of the
\* registrable if and only if the registrable has a run of length >= 2;
\* besides that form it contains exactly the strings obtained by deleting
\* one character.
C16_OmissionCollapsedRuns ==
    g_pc = "Repetition" =>
        LET d == dfuzz.domain
            hasRun == \E i \in 1..(Len(d) - 1) : d[i] = d[i + 1]
            deletions == { WithoutCharAt(d, i) : i \in 1..Len(d) }
        IN  /\ (RunsCollapsed(d) \in Returned("Omission")) <=> hasRun
            /\ Returned("Omission") \ { RunsCollapsed(d) } = deletions \ { RunsCollapsed(d) }

\* Omission has returned the collapsed form of a registrable of one run of
\* three characters, which no deletion of one character gives.
C16_Witness ==
    /\ g_pc = "Repetition"
    /\ Len(dfuzz.domain) = 3
    /\ dfuzz.domain[1] = dfuzz.domain[2] /\ dfuzz.domain[2] = dfuzz.domain[3]
    /\ Returned("Omission") = { << dfuzz.domain[1] >>, << dfuzz.domain[1], dfuzz.domain[1] >> }

\* The DNS queries made for record i so far, in the order they were made.
DnsQueries(i) ==
    LET q == SelectSeq(probed[i], LAMBDA e : e.probe \in { "NS", "A", "AAAA", "MX" })
    IN  [ k \in 1..Len(q) |-> q[k].probe ]

\* C17: with the full resolver the DNS queries of a candidate are made in
\* the order NS, A, AAAA, MX, each at most once and none before the one
\* ahead of it; A and AAAA are queried exactly when the NS query did not
\* return NXDOMAIN, whatever else it returned; MX is queried only when the
\* NS query gave an answer, and after A and AAAA.
C17_DnsOrdering ==
    \A i \in Enqueued :
        conf.extdns =>
            /\ Len(DnsQueries(i)) <= 4
            /\ DnsQueries(i) = SubSeq(<< "NS", "A", "AAAA", "MX" >>, 1, Len(DnsQueries(i)))
            /\ "getaddrinfo" \notin ProbesOf(i)
            /\ "A" \in ProbesOf(i) => net[i].ns # "NXDOMAIN"
            /\ "MX" \in ProbesOf(i) => net[i].ns = "answer"
            /\ (ProbesOf(i) \ { "get", "NS", "A", "AAAA", "MX" } # {} \/ i \in finalized) =>
                  /\ "NS" \in ProbesOf(i)
                  /\ ("A" \in ProbesOf(i)) <=> (net[i].ns # "NXDOMAIN")
                  /\ ("AAAA" \in ProbesOf(i)) <=> (net[i].ns # "NXDOMAIN")
                  /\ ("MX" \in ProbesOf(i)) <=> (net[i].ns = "answer")

\* A candidate whose NS query failed on all nameservers has been finalized
\* after its A and AAAA queries and without an MX query.
C17_Witness ==
    \E i \in Enqueued :
        /\ conf.extdns /\ net[i].ns = "NoNameservers"
        /\ i \in finalized
        /\ DnsQueries(i) = << "NS", "A", "AAAA" >>

\* The DNS queries of the full resolver: the worker's position, the
\* record's field.
QueryTypes == { << "ns", "dns-ns" >>, << "a", "dns-a" >>, << "aaaa", "dns-aaaa" >>,
                << "mx", "dns-mx" >> }

\* C18: when the query for one record type fails with "all nameservers
\* failed", that step sets the record's field for the type to exactly
\* ["!ServFail"] and changes no other field and no other record, and the
\* worker goes on (to the A query after NS, to the AAAA query after A, and
\* never out of run()); any other DNS error changes nothing and leaves the
\* field absent, and the worker goes on in the same way.
C18_ServFailSentinel ==
    [][ \A w \in Workers, t \in QueryTypes :
          (w_pc[w] = t[1] /\ w_pc'[w] # t[1]) =>
              LET i == cur[w]
                  o == net[i][t[1]]
              IN  /\ o = "NoNameservers" =>
                        /\ DOMAIN domains'[i] = DOMAIN domains[i] \cup { t[2] }
                        /\ domains'[i][t[2]] = << "!ServFail" >>
                        /\ \A k \in DOMAIN domains[i] \ { t[2] } : domains'[i][k] = domains[i][k]
                  /\ o \in { "error", "NXDOMAIN" } =>
                        /\ domains'[i] = domains[i]
                        /\ t[2] \notin DOMAIN domains'[i]
                  /\ o \in { "NoNameservers", "error" } =>
                        /\ w_pc'[w] \notin { "raised", "exited" }
                        /\ t[1] = "ns" => w_pc'[w] = "a"
                        /\ t[1] = "a" => w_pc'[w] = "aaaa"
                        /\ t[1] = "aaaa" => (w_pc'[w] = "mx") <=> (net[i].ns = "answer")
                  /\ \A j \in Enqueued \ { i } : domains'[j] = domains[j]
      ]_vars

\* A finalized record holds the sentinel for A between real answers for NS,
\* AAAA and MX, and another field is absent after another DNS error.
C18_Witness ==
    \E i \in Enqueued :
        /\ conf.extdns /\ i \in finalized /\ m_pc # "exit"
        /\ net[i].a = "NoNameservers" /\ net[i].mx = "error"
        /\ domains[i]["dns-a"] = << "!ServFail" >>
        /\ domains[i]["dns-ns"] = NsAnswer /\ domains[i]["dns-aaaa"] = AaaaAnswer
        /\ "MX" \in ProbesOf(i) /\ "dns-mx" \notin DOMAIN domains[i]

\* C19: the MX relay probe runs for a candidate only if --mxcheck is
\* enabled, the candidate's MX query gave an answer and the candidate's
\* name differs from the original domain; mx-spy is never set on the
\* record of the original.
C19_MxcheckSparesOriginal ==
    m_pc # "exit" =>
        \A i \in Enqueued :
            /\ "mxcheck" \in ProbesOf(i) =>
                  /\ conf.mxcheck
                  /\ net[i].mx = "answer"
                  /\ domains[i].domain_name # domain_orig
            /\ domains[i].fuzzer = "Original*" => "mx-spy" \notin DOMAIN domains[i]

\* The work on record i has ended: task_done, or run() raised while the
\* worker held it.
Ended(i) == i \in finalized \/ \E w \in Workers : cur[w] = i /\ w_pc[w] = "raised"

\* What became of record i: whether it was finalized, the probes run on it
\* and the fields written to it.
Fate(i) ==
    << i \in finalized, ProbesOf(i),
       [ k \in DOMAIN domains[i] \ { "fuzzer", "domain_name" } |-> domains[i][k] ] >>

\* C20: whether each probe runs for a candidate, and what it writes,
\* depends only on the configuration and on the candidate's own outcomes,
\* never on a candidate its worker processed earlier, in both resolution
\* modes: two candidates with the same outcomes of their own come to the
\* same end, whatever was processed before them.
C20_NoCarryOver ==
    m_pc # "exit" =>
        \A i, j \in Enqueued :
            (net[i] = net[j] /\ Ended(i) /\ Ended(j)) => Fate(i) = Fate(j)

\* The probes that take the first element of dns-a or dns-mx as their target.
TargetedProbes == { "geoip", "banner-http", "banner-smtp", "mxcheck" }

\* C21: whenever the GeoIP, HTTP banner, SMTP banner or MX relay probe
\* runs, its target (the first element of dns-a or dns-mx) exists and is a
\* real answer of a successful query for that candidate, never the
\* "!ServFail" sentinel and never a missing field, also when only AAAA
\* resolved and A failed.
C21_ProbeTargetsAreAnswers ==
    /\ \A i \in Enqueued : \A k \in 1..Len(probed[i]) :
          probed[i][k].probe \in TargetedProbes =>
              probed[i][k].target \in { AAnswer[1], MxAnswer[1] }
    /\ \A w \in Workers : w_exc[w] \notin { "KeyError", "IndexError" }

\* The name record i had when main put it on the queue: the candidates
\* carry distinct fuzzer tags.
EnqueuedName(i) ==
    (CHOOSE c \in Range(PoolCandidates) : c.fuzzer = domains[i].fuzzer).domain_name

\* No ACE label is left in the name.
UnicodeForm(name) == ~Contains(name, S_ace)

\* The name is what nameprep makes of it: no capital and no ACE label.
Normalised(name) == LowerStr(name) = name /\ UnicodeForm(name)

\* A step of a worker on record i keeps its keys and its fuzzer tag.
KeysGrow(i) ==
    /\ DOMAIN domains[i] \subseteq DOMAIN domains'[i]
    /\ domains'[i].fuzzer = domains[i].fuzzer

\* The step is the task_done of record i.
TaskDone(i) == i \notin finalized /\ i \in finalized'

WithDotAt(s, i) == Slice(s, 0, i) \o << Ch.dot >> \o Slice(s, i, Len(s))

\* The interior offsets 1..len(s)-1 of s with no hyphen and no dot on either side.
InteriorPositions(s) ==
    { i \in 1..(Len(s) - 1) :
        /\ s[i] \notin { Ch.hyphen, Ch.dot }
        /\ s[i + 1] \notin { Ch.hyphen, Ch.dot } }

\* C23: the Subdomain strategy returns s[:i] + '.' + s[i:] for every
\* interior position i in 1..len(s)-1 of the registrable s at which neither
\* s[i-1] nor s[i] is '-' or '.', and returns nothing else.
C23_SubdomainEveryInterior ==
    g_pc = "Transposition" =>
        Returned("Subdomain") =
            { WithDotAt(dfuzz.domain, i) : i \in InteriorPositions(dfuzz.domain) }

\* The strategies whose windows need two characters.
WindowStrategies ==
    { "Homoglyph", "Hyphenation", "Insertion", "Subdomain", "Transposition" }

\* What generate() leaves for a registrable of one character: nothing from
\* the window strategies, no name with an empty label, and (where asked)
\* the Original* record.
OneCharResult(withOriginal) ==
    /\ \A k \in 1..Len(emitted) : emitted[k].fuzzer \notin WindowStrategies
    /\ \A k \in 1..Len(domains) :
          \A l \in Range(Split(domains[k].domain_name, Ch.dot)) : Len(l) > 0
    /\ withOriginal => \E k \in 1..Len(domains) : domains[k].fuzzer = "Original*"

\* C25 as stated: for a registrable of length 1, Homoglyph, Hyphenation,
\* Insertion, Subdomain and Transposition each return an empty result and
\* generate() completes without error, its result still containing the
\* Original* entry and no entry with an empty label.
C25_OneCharRegistrable_AsStated ==
    Len(dfuzz.domain) = 1 =>
        /\ g_pc # "raised"
        /\ Generated => OneCharResult(TRUE)

\* C25: for a registrable of length 1, Homoglyph, Hyphenation, Insertion,
\* Subdomain and Transposition each return an empty result and generate()
\* completes without error, its result containing no entry with an empty
\* label and, when the input domain has the syntactic form of a candidate
\* name, still containing the Original* entry.
C25_OneCharRegistrable ==
    Len(dfuzz.domain) = 1 =>
        /\ g_pc # "raised"
        /\ Generated => OneCharResult(LdhForm(g_input))

\* generate() has returned for a one-letter registrable below a subdomain:
\* the Original* record is kept next to others, and Omission returned the
\* empty string.
C25_Witness ==
    /\ Generated
    /\ Len(dfuzz.domain) = 1
    /\ Len(dfuzz.subdomain) > 0
    /\ LdhForm(g_input)
    /\ OneCharResult(TRUE)
    /\ Len(domains) > 1
    /\ \E k \in 1..Len(emitted) :
          emitted[k].fuzzer = "Omission" /\ emitted[k].domain_name = FullName(dfuzz.subdomain, <<>>, dfuzz.tld)

(***************************************************************************)
(* Claims about __domain_tld (392-422), checked under SpecSplit: the       *)
(* domains UrlParser hands to DomainFuzz, split by the fallback.           *)
(***************************************************************************)
MaxLabels == 5

\* Labels before the last one: "l", "w", "co", "com".
SplitHeadLabels == { << 108 >>, << 119 >>, << 99, 111 >>, S_com }

\* Last labels, two letters or more: "co", "de", "uk", "com".
SplitLastLabels == { << 99, 111 >>, << 100, 101 >>, << 117, 107 >>, S_com }

\* The domains __validate_domain of UrlParser (lines 260-266) lets through:
\* two labels or more, with or without a dot after the last one.
SplitInputs ==
    { Join(h \o << t >>, Ch.dot) \o e :
        h \in UNION { [ 1..n -> SplitHeadLabels ] : n \in 1..(MaxLabels - 1) },
        t \in SplitLastLabels,
        e \in { <<>>, << Ch.dot >> } }

SplitInit ==
    /\ g_input \in SplitInputs
    /\ g_pc = "init"
    /\ dfuzz = [ subdomain |-> <<>>, domain |-> <<>>, tld |-> <<>> ]
    /\ domains = <<>>
    /\ emitted = <<>>
    /\ hashOrder \in { "fwd", "rev" }
    /\ dictionary = NoDictionary
    /\ jobs = <<>>
    /\ UrlDone
    /\ PoolIdle

SpecSplit == SplitInit /\ [][DomainFuzzInit]_vars

\* C24: in the fallback split, for every domain of at least two labels the
\* returned triple (subdomain, registrable, tld) joins back to the input
\* domain when its non-empty parts are joined with dots, the registrable is
\* a single non-empty label, and for a domain of at least three labels the
\* TLD is the last two labels exactly when the second-to-last label is in
\* the country-compound list and the last label otherwise.
C24_FallbackSplitJoinsBack ==
    g_pc # "init" =>
        LET labels == Split(g_input, Ch.dot)
            n == Len(labels)
        IN  n >= 2 =>
              /\ g_pc = "Original"
              /\ FullName(dfuzz.subdomain, dfuzz.domain, dfuzz.tld) = g_input
              /\ Len(dfuzz.domain) > 0 /\ ~HasChar(dfuzz.domain, Ch.dot)
              /\ n >= 3 =>
                    dfuzz.tld = IF labels[n - 1] \in ctld
                                THEN labels[n - 1] \o << Ch.dot >> \o labels[n]
                                ELSE labels[n]

====
